---- MODULE Spec2Model ----
(***************************************************************************)
(* Model of the note repository of cognate (src/src/notebook.rs):          *)
(* create_new_note, delete_note and move_note acting on the notebook       *)
(* directory tree, on metadata.json and on the caller's record list; of    *)
(* the text of metadata.json that save_metadata writes and                 *)
(* load_notes_metadata reads; of the undo history, of the note explorer    *)
(* and of the message handlers of the editor (src/src/components).         *)
(*                                                                         *)
(* Spec is the repository, SpecIndex the index file, SpecUndo the undo     *)
(* history, SpecExplorer the note explorer and SpecEditor the editor with  *)
(* its tasks and messages.                                                 *)
(*                                                                         *)
(* A relative path is a string, modelled as a sequence of one-character    *)
(* strings, so that starts_with, contains and trim_start_matches are       *)
(* computed character by character as the code computes them.  A location  *)
(* of the directory tree is the sequence of the path's components below    *)
(* the notebook root (<<>> is the root itself).                            *)
(***************************************************************************)
EXTENDS Integers, Sequences, FiniteSets, Bags, TLC

VARIABLES
    notes,      \* the caller's Vec<NoteMetadata>, handed to every call
    dirs,       \* directories that exist, as locations (root included)
    files,      \* location of a directory |-> content of its note.md
    metadata,   \* metadata.json: [exists, notes]
    last,       \* the call that returned last, and what it returned
    faults,     \* how many calls had a filesystem step or an index write fail
    undo_histories, \* UndoManager: note path |-> Vec of earlier contents
    undo_indices,   \* UndoManager: note path |-> position in its history
    expanded_folders, \* NoteExplorer: folder path |-> is it expanded
    tree,           \* the tree the explorer's view built last
    metadata_json,  \* metadata.json as the text save_metadata writes
    editor,         \* Editor: the fields its handlers read or write
    pending,        \* the tasks and the messages in flight, a bag
    clicks          \* how many times the user has clicked or submitted

repoVars == <<notes, dirs, files, metadata, faults>>
undoVars == <<undo_histories, undo_indices>>
explorerVars == <<expanded_folders, tree>>
indexVars == <<metadata_json>>
editorVars == <<editor, pending, clicks>>

vars == <<notes, dirs, files, metadata, last, faults,
          undo_histories, undo_indices, expanded_folders, tree,
          metadata_json, editor, pending, clicks>>

----------------------------------------------------------------------------
(* Bounds *)

MaxNotes == 3
MaxFaults == 1
MaxHistory == 2
MaxRecords == 2
MaxClicks == 3
MaxPending == 3

----------------------------------------------------------------------------
(* Strings *)

Slash == "/"
Dot == "."

\* str::starts_with
StartsWith(s, p) == Len(p) <= Len(s) /\ SubSeq(s, 1, Len(p)) = p

\* str::contains
Contains(s, p) ==
    \E i \in 1..(Len(s) - Len(p) + 1) : SubSeq(s, i, i + Len(p) - 1) = p

\* str::trim_start_matches: strips the pattern as often as it leads the string
RECURSIVE TrimStartMatches(_, _)
TrimStartMatches(s, p) ==
    IF p # <<>> /\ StartsWith(s, p)
    THEN TrimStartMatches(SubSeq(s, Len(p) + 1, Len(s)), p)
    ELSE s

\* the segments of s between separators, empty segments included
RECURSIVE Split(_)
Split(s) ==
    IF \A i \in 1..Len(s) : s[i] # Slash
    THEN <<s>>
    ELSE LET i == CHOOSE j \in 1..Len(s) :
                      s[j] = Slash /\ \A k \in 1..(j - 1) : s[k] # Slash
         IN  <<SubSeq(s, 1, i - 1)>> \o Split(SubSeq(s, i + 1, Len(s)))

\* Path::new(notebook_path).join(rel): the components of rel below the root.
\* Path drops empty components and "." components.
Components(s) ==
    SelectSeq(Split(s), LAMBDA seg : seg # <<>> /\ seg # <<Dot>>)

\* the characters of the model in byte order, for str::cmp
Alphabet ==
    <<" ", "\"", ",", ".", "/", ":", "[", "\\", "]",
      "a", "b", "c", "d", "e", "f", "g", "h", "i", "j", "k", "l", "m",
      "n", "o", "p", "q", "r", "s", "t", "u", "v", "w", "x", "y", "z",
      "{", "}">>

Ord(c) == CHOOSE i \in 1..Len(Alphabet) : Alphabet[i] = c

\* a.cmp(b) == Ordering::Less, byte by byte
StrLess(a, b) ==
    \E i \in 1..(Len(b)) :
        /\ i <= Len(a) + 1
        /\ SubSeq(a, 1, i - 1) = SubSeq(b, 1, i - 1)
        /\ (i = Len(a) + 1 \/ Ord(a[i]) < Ord(b[i]))

\* str::trim, for the one white space character of the model
RECURSIVE Trim(_)
Trim(s) ==
    IF s # <<>> /\ Head(s) = " " THEN Trim(Tail(s))
    ELSE IF s # <<>> /\ s[Len(s)] = " " THEN Trim(SubSeq(s, 1, Len(s) - 1))
    ELSE s

\* Path::iter: the root and a leading "." are components, empty segments
\* and other "." segments are not
PathIter(s) ==
    LET segs == Split(s)
        lead == IF StartsWith(s, <<Slash>>) THEN <<<<Slash>>>>
                ELSE IF segs[1] = <<Dot>> THEN <<<<Dot>>>>
                ELSE <<>>
    IN  lead \o SelectSeq(segs, LAMBDA seg : seg # <<>> /\ seg # <<Dot>>)

\* [String]::join("/")
RECURSIVE Join(_)
Join(comps) ==
    IF comps = <<>> THEN <<>>
    ELSE IF Len(comps) = 1 THEN comps[1]
    ELSE comps[1] \o <<Slash>> \o Join(Tail(comps))

IsPrefix(p, q) == Len(p) <= Len(q) /\ SubSeq(q, 1, Len(p)) = p

Root == <<>>

Parent(loc) == SubSeq(loc, 1, Len(loc) - 1)

Prefixes(loc) == { SubSeq(loc, 1, k) : k \in 0..Len(loc) }

----------------------------------------------------------------------------
(* The filesystem under the notebook root (std::fs) *)

\* Path::exists / Path::canonicalize().is_ok() of a location
Exists(ds, loc) == loc \in ds

\* fs::create_dir_all
create_dir_all(ds, loc) == ds \cup Prefixes(loc)

\* mutant: a removal that removes nothing
remove_dir_all_Nothing(ds, loc) == ds

\* fs::remove_dir_all: the directories that remain
remove_dir_all(ds, loc) == { d \in ds : ~IsPrefix(loc, d) }

\* the note.md files left once the directories outside ds are gone
FilesIn(fs, ds) == [d \in (DOMAIN fs) \cap ds |-> fs[d]]

\* fs::write(note_dir/note.md, content)
WriteFile(fs, loc, content) ==
    [d \in (DOMAIN fs) \cup {loc} |-> IF d = loc THEN content ELSE fs[d]]

\* where a location lies after fs::rename(from, to)
Relocate(d, from, to) ==
    IF IsPrefix(from, d) THEN to \o SubSeq(d, Len(from) + 1, Len(d)) ELSE d

RenameDirs(ds, from, to) == { Relocate(d, from, to) : d \in ds }

RenameFiles(fs, from, to) ==
    [d \in { Relocate(e, from, to) : e \in DOMAIN fs } |->
        fs[CHOOSE e \in DOMAIN fs : Relocate(e, from, to) = d]]

\* fs::rename of a directory fails when the target lies inside the source
\* (EINVAL), which covers renaming the notebook root
RenameRefused(from, to) == IsPrefix(from, to)

----------------------------------------------------------------------------
(* Maps *)

\* HashMap::new, HashMap::insert, HashMap::remove
HashMapNew == [k \in {} |-> 0]

HashMapInsert(m, k, v) ==
    [j \in (DOMAIN m) \cup {k} |-> IF j = k THEN v ELSE m[j]]

HashMapRemove(m, k) == [j \in (DOMAIN m) \ {k} |-> m[j]]

----------------------------------------------------------------------------
(* metadata.json *)

NoteMetadata(rel_path) == [rel_path |-> rel_path, labels |-> <<>>]

NoMetadata == [exists |-> FALSE, notes |-> <<>>]

\* the file after save_metadata(notebook_path, notes) succeeded
SavedMetadata(ns) == [exists |-> TRUE, notes |-> ns]

\* metadata.json lives in the root: it goes when the root is removed
MetadataIn(md, ds) == IF Root \in ds THEN md ELSE NoMetadata

----------------------------------------------------------------------------
(* The text of metadata.json: serde_json::to_string_pretty of              *)
(* NotebookMetadata { notes } in save_metadata, and serde_json::from_str   *)
(* in load_notes_metadata.  The text is a sequence of characters.          *)

Quote == "\""
Backslash == "\\"
Newline == "\n"

RECURSIVE Indent(_)
Indent(level) == IF level = 0 THEN <<>> ELSE <<" ", " ">> \o Indent(level - 1)

\* mutant: the escaping of a string without the case of the backslash
EscapeChar_QuoteOnly(c) ==
    IF c = Quote THEN <<Backslash, Quote>>
    ELSE IF c = Newline THEN <<Backslash, "n">>
    ELSE <<c>>

\* format_escaped_str_contents, one character
EscapeChar(c) ==
    IF c = Quote THEN <<Backslash, Quote>>
    ELSE IF c = Backslash THEN <<Backslash, Backslash>>
    ELSE IF c = Newline THEN <<Backslash, "n">>
    ELSE <<c>>

RECURSIVE Escape(_)
Escape(s) == IF s = <<>> THEN <<>> ELSE EscapeChar(Head(s)) \o Escape(Tail(s))

\* a String
JsonString(s) == <<Quote>> \o Escape(s) \o <<Quote>>

\* the elements of an array, each on its line, separated by commas
RECURSIVE JsonElements(_, _)
JsonElements(texts, level) ==
    IF texts = <<>> THEN <<>>
    ELSE <<Newline>> \o Indent(level) \o Head(texts)
         \o (IF Len(texts) > 1 THEN <<",">> ELSE <<>>)
         \o JsonElements(Tail(texts), level)

\* a Vec, whose elements are already text
JsonArray(texts, level) ==
    IF texts = <<>> THEN <<"[", "]">>
    ELSE <<"[">> \o JsonElements(texts, level + 1)
         \o <<Newline>> \o Indent(level) \o <<"]">>

JsonKey(name, level) ==
    <<Newline>> \o Indent(level) \o <<Quote>> \o name \o <<Quote, ":", " ">>

\* the names of the fields
rel_path_key == <<"r", "e", "l", "_", "p", "a", "t", "h">>
labels_key == <<"l", "a", "b", "e", "l", "s">>
notes_key == <<"n", "o", "t", "e", "s">>

\* a NoteMetadata
JsonNote(note, level) ==
    <<"{">>
    \o JsonKey(rel_path_key, level + 1)
    \o JsonString(note.rel_path) \o <<",">>
    \o JsonKey(labels_key, level + 1)
    \o JsonArray([i \in 1..Len(note.labels) |-> JsonString(note.labels[i])],
                 level + 1)
    \o <<Newline>> \o Indent(level) \o <<"}">>

\* serde_json::to_string_pretty(&NotebookMetadata { notes })
to_string_pretty(ns) ==
    <<"{">>
    \o JsonKey(notes_key, 1)
    \o JsonArray([i \in 1..Len(ns) |-> JsonNote(ns[i], 2)], 1)
    \o <<Newline, "}">>

\* what a parser returns: whether it succeeded, the value, and the position
\* after what it read
Parsed(value, next) == [ok |-> TRUE, value |-> value, next |-> next]
ParseError == [ok |-> FALSE, value |-> <<>>, next |-> 0]

\* the result of one parser handed to what follows it
Then(result, Continue(_)) == CHOOSE r \in { Continue(v) : v \in {result} } : TRUE

Whitespace == {" ", Newline}

\* the position of the first character at or after i that is not white
\* space; Len(s) + 1 when there is none
RECURSIVE SkipWhitespace(_, _)
SkipWhitespace(s, i) ==
    IF i <= Len(s) /\ s[i] \in Whitespace THEN SkipWhitespace(s, i + 1)
    ELSE i

\* is the character c at position i
At(s, i, c) == i <= Len(s) /\ s[i] = c

\* the characters of a string up to its closing quote
RECURSIVE ParseStringContents(_, _, _)
ParseStringContents(s, i, acc) ==
    IF i > Len(s) THEN ParseError
    ELSE IF s[i] = Quote THEN Parsed(acc, i + 1)
    ELSE IF s[i] = Newline THEN ParseError
    ELSE IF s[i] = Backslash
    THEN IF i + 1 > Len(s) THEN ParseError
         ELSE IF s[i + 1] \in {Quote, Backslash, "/"}
         THEN ParseStringContents(s, i + 2, Append(acc, s[i + 1]))
         ELSE IF s[i + 1] = "n"
         THEN ParseStringContents(s, i + 2, Append(acc, Newline))
         ELSE ParseError
    ELSE ParseStringContents(s, i + 1, Append(acc, s[i]))

\* a String, after white space
ParseString(s, i) ==
    Then(SkipWhitespace(s, i), LAMBDA j :
        IF At(s, j, Quote)
        THEN Then(ParseStringContents(s, j + 1, <<>>), LAMBDA r : r)
        ELSE ParseError)

\* after an element of an array that ends at position i: "more" and the
\* position after the comma, "end" and the position after the "]", or
\* "error"
AfterElement(s, i) ==
    Then(SkipWhitespace(s, i), LAMBDA j :
        IF At(s, j, ",") THEN [is |-> "more", next |-> j + 1]
        ELSE IF At(s, j, "]") THEN [is |-> "end", next |-> j + 1]
        ELSE [is |-> "error", next |-> 0])

\* the strings of an array after the elements in acc
RECURSIVE ParseStrings(_, _, _)
ParseStrings(s, i, acc) ==
    Then(ParseString(s, i), LAMBDA element :
        IF ~element.ok THEN ParseError
        ELSE Then(AfterElement(s, element.next), LAMBDA after :
            IF after.is = "more"
            THEN ParseStrings(s, after.next, Append(acc, element.value))
            ELSE IF after.is = "end"
            THEN Parsed(Append(acc, element.value), after.next)
            ELSE ParseError))

\* a Vec<String>, after white space
ParseStringArray(s, i) ==
    Then(SkipWhitespace(s, i), LAMBDA j :
        IF ~At(s, j, "[") THEN ParseError
        ELSE Then(SkipWhitespace(s, j + 1), LAMBDA k :
            IF At(s, k, "]") THEN Parsed(<<>>, k + 1)
            ELSE ParseStrings(s, k, <<>>)))

\* the name of a field and the colon after it
ParseKey(s, i) ==
    Then(ParseString(s, i), LAMBDA key :
        IF ~key.ok THEN ParseError
        ELSE Then(SkipWhitespace(s, key.next), LAMBDA j :
            IF At(s, j, ":") THEN Parsed(key.value, j + 1)
            ELSE ParseError))

\* the NoteMetadata whose fields were read: rel_path is required, labels
\* is #[serde(default)]
NoteOf(seen) ==
    [rel_path |-> seen[rel_path_key],
     labels |-> IF labels_key \in DOMAIN seen THEN seen[labels_key]
                ELSE <<>>]

\* the fields of a NoteMetadata after its "{" : seen maps the names of the
\* fields read so far to their values.  A field read twice is an error, and
\* so is, in this model, a field the struct does not have.
RECURSIVE ParseNoteFields(_, _, _)
ParseNoteFields(s, i, seen) ==
    Then(ParseKey(s, i), LAMBDA key :
        IF ~key.ok \/ key.value \in DOMAIN seen
           \/ key.value \notin {rel_path_key, labels_key}
        THEN ParseError
        ELSE Then(IF key.value = rel_path_key
                  THEN ParseString(s, key.next)
                  ELSE ParseStringArray(s, key.next), LAMBDA field :
            IF ~field.ok THEN ParseError
            ELSE Then(SkipWhitespace(s, field.next), LAMBDA j :
                Then(HashMapInsert(seen, key.value, field.value), LAMBDA now :
                    IF At(s, j, ",") THEN ParseNoteFields(s, j + 1, now)
                    ELSE IF At(s, j, "}") /\ rel_path_key \in DOMAIN now
                    THEN Parsed(NoteOf(now), j + 1)
                    ELSE ParseError))))

\* a NoteMetadata, after white space
ParseNote(s, i) ==
    Then(SkipWhitespace(s, i), LAMBDA j :
        IF At(s, j, "{") THEN ParseNoteFields(s, j + 1, HashMapNew)
        ELSE ParseError)

\* the records of an array after the elements in acc
RECURSIVE ParseNotes(_, _, _)
ParseNotes(s, i, acc) ==
    Then(ParseNote(s, i), LAMBDA element :
        IF ~element.ok THEN ParseError
        ELSE Then(AfterElement(s, element.next), LAMBDA after :
            IF after.is = "more"
            THEN ParseNotes(s, after.next, Append(acc, element.value))
            ELSE IF after.is = "end"
            THEN Parsed(Append(acc, element.value), after.next)
            ELSE ParseError))

\* a Vec<NoteMetadata>, after white space
ParseNoteArray(s, i) ==
    Then(SkipWhitespace(s, i), LAMBDA j :
        IF ~At(s, j, "[") THEN ParseError
        ELSE Then(SkipWhitespace(s, j + 1), LAMBDA k :
            IF At(s, k, "]") THEN Parsed(<<>>, k + 1)
            ELSE ParseNotes(s, k, <<>>)))

\* serde_json::from_str::<NotebookMetadata>: an object whose one field is
\* notes, and nothing but white space after it
from_str(s) ==
    Then(SkipWhitespace(s, 1), LAMBDA j :
        IF ~At(s, j, "{") THEN ParseError
        ELSE Then(ParseKey(s, j + 1), LAMBDA key :
            IF ~key.ok \/ key.value # notes_key THEN ParseError
            ELSE Then(ParseNoteArray(s, key.next), LAMBDA list :
                IF ~list.ok THEN ParseError
                ELSE Then(SkipWhitespace(s, list.next), LAMBDA k :
                    IF At(s, k, "}")
                       /\ SkipWhitespace(s, k + 1) > Len(s)
                    THEN Parsed(list.value, Len(s) + 1)
                    ELSE ParseError))))

\* metadata.json as a file: absent, or its text
NoFile == [exists |-> FALSE, text |-> <<>>]
File(text) == [exists |-> TRUE, text |-> text]

\* save_metadata(notebook_path, notes): what it leaves of the directories
\* and of the file, and its result.  fail: "mkdir" (create_dir_all of the
\* notebook directory), "write" (fs::write, which fails to open the file),
\* "none".
save_metadata(ds, file, ns, fail) ==
    IF fail = "mkdir"
    THEN [dirs |-> ds, file |-> file, out |-> "mkdir"]
    ELSE IF fail = "write"
    THEN [dirs |-> create_dir_all(ds, Root), file |-> file, out |-> "write"]
    ELSE [dirs |-> create_dir_all(ds, Root),
          file |-> File(to_string_pretty(ns)), out |-> "ok"]

\* load_notes_metadata(notebook_path)
load_notes_metadata(file) ==
    IF ~file.exists THEN <<>>
    ELSE LET metadata_ == from_str(file.text)
         IN  IF metadata_.ok THEN metadata_.value ELSE <<>>

----------------------------------------------------------------------------
(* What a call returns to the model: the four pieces of state after the    *)
(* call, the kind of result (out) and whether metadata.json was written.   *)
(* out is "ok", the kind of the Err ("invalid", "conflict", "notfound"),   *)
(* or the step whose failure the Err reports.                              *)

Ret(ns, ds, fs, md, out, wrote) ==
    [notes |-> ns, dirs |-> ds, files |-> fs, metadata |-> md,
     out |-> out, wrote |-> wrote]

\* mutant: the validation without its starts_with('/') test
InvalidRelPath_NoAbsoluteTest(p) ==
    \/ p = <<>>
    \/ p = <<Dot>>
    \/ p = <<Dot, Dot>>
    \/ Contains(p, <<Dot, Dot>>)

\* "Basic validation for the new path" of create_new_note and move_note
InvalidRelPath(p) ==
    \/ p = <<>>
    \/ p = <<Dot>>
    \/ p = <<Dot, Dot>>
    \/ StartsWith(p, <<Slash>>)
    \/ Contains(p, <<Dot, Dot>>)

InMetadata(ns, p) == \E i \in 1..Len(ns) : ns[i].rel_path = p

\* mutant: create_new_note without its two existence checks
Conflicts_Never(ns, ds, rel_path) == FALSE

\* create_new_note: already in the record list, or already on disk
Conflicts(ns, ds, rel_path) ==
    InMetadata(ns, rel_path) \/ Exists(ds, Components(rel_path))

\* mutant: create_new_note making the directory before it checks for a
\* conflict
create_new_note_ChecksLate(ns, ds, fs, md, rel_path, fail) ==
    LET note_dir == Components(rel_path)
        made     == create_dir_all(ds, note_dir)
        undone   == remove_dir_all(made, note_dir)
        pushed   == Append(ns, NoteMetadata(rel_path))
    IN  IF InvalidRelPath(rel_path)
        THEN Ret(ns, ds, fs, md, "invalid", FALSE)
        ELSE IF fail = "mkdir"
        THEN Ret(ns, ds, fs, md, "mkdir", FALSE)
        ELSE IF Conflicts(ns, ds, rel_path)
        THEN Ret(ns, made, fs, md, "conflict", FALSE)
        ELSE IF fail = "write"
        THEN Ret(ns, undone, FilesIn(fs, undone), md, "write", FALSE)
        ELSE IF fail = "save"
        THEN Ret(pushed, undone, FilesIn(fs, undone), md, "save", FALSE)
        \* Ok(new_note_metadata)
        ELSE Ret(pushed, made, WriteFile(fs, note_dir, ""),
                 SavedMetadata(pushed), "ok", TRUE)
                @@ [value |-> NoteMetadata(rel_path)]

\* mutant: create_new_note putting the new record first in the list
create_new_note_PushesFront(ns, ds, fs, md, rel_path, fail) ==
    LET note_dir == Components(rel_path)
        made     == create_dir_all(ds, note_dir)
        undone   == remove_dir_all(made, note_dir)
        pushed   == <<NoteMetadata(rel_path)>> \o ns
    IN  IF InvalidRelPath(rel_path)
        THEN Ret(ns, ds, fs, md, "invalid", FALSE)
        ELSE IF Conflicts(ns, ds, rel_path)
        THEN Ret(ns, ds, fs, md, "conflict", FALSE)
        ELSE IF fail = "mkdir"
        THEN Ret(ns, ds, fs, md, "mkdir", FALSE)
        ELSE IF fail = "write"
        THEN Ret(ns, undone, FilesIn(fs, undone), md, "write", FALSE)
        ELSE IF fail = "save"
        THEN Ret(pushed, undone, FilesIn(fs, undone), md, "save", FALSE)
        ELSE Ret(pushed, made, WriteFile(fs, note_dir, ""),
                 SavedMetadata(pushed), "ok", TRUE)
                @@ [value |-> NoteMetadata(rel_path)]

\* fail names the step the environment makes fail, if the call gets there:
\* "mkdir" (fs::create_dir_all), "write" (fs::write of note.md),
\* "save" (save_metadata), "none".  A step that fails leaves the tree and
\* metadata.json as they were before that step.
create_new_note(ns, ds, fs, md, rel_path, fail) ==
    LET note_dir == Components(rel_path)
        made     == create_dir_all(ds, note_dir)
        undone   == remove_dir_all(made, note_dir)
        pushed   == Append(ns, NoteMetadata(rel_path))
    IN  IF InvalidRelPath(rel_path)
        THEN Ret(ns, ds, fs, md, "invalid", FALSE)
        \* the canonicalize check cannot reject: without a ".." segment the
        \* joined path resolves below the canonical root
        ELSE IF Conflicts(ns, ds, rel_path)
        THEN Ret(ns, ds, fs, md, "conflict", FALSE)
        ELSE IF fail = "mkdir"
        THEN Ret(ns, ds, fs, md, "mkdir", FALSE)
        ELSE IF fail = "write"
        THEN Ret(ns, undone, FilesIn(fs, undone), md, "write", FALSE)
        ELSE IF fail = "save"
        THEN Ret(pushed, undone, FilesIn(fs, undone), md, "save", FALSE)
        \* Ok(new_note_metadata)
        ELSE Ret(pushed, made, WriteFile(fs, note_dir, ""),
                 SavedMetadata(pushed), "ok", TRUE)
                @@ [value |-> NoteMetadata(rel_path)]

\* mutant: position(..).unwrap_or(first) instead of an Option
Position_OrFirst(ns, p) ==
    IF InMetadata(ns, p)
    THEN CHOOSE i \in 1..Len(ns) :
            ns[i].rel_path = p /\ \A j \in 1..(i - 1) : ns[j].rel_path # p
    ELSE IF Len(ns) > 0 THEN 1 ELSE 0

\* notes.iter().position(|note| note.rel_path == rel_path); 0 for None
Position(ns, p) ==
    IF InMetadata(ns, p)
    THEN CHOOSE i \in 1..Len(ns) :
            ns[i].rel_path = p /\ \A j \in 1..(i - 1) : ns[j].rel_path # p
    ELSE 0

\* Vec::remove(index)
RemoveAt(ns, i) == SubSeq(ns, 1, i - 1) \o SubSeq(ns, i + 1, Len(ns))

\* mutant: delete_note writing the index before it removes the directory
delete_note_SavesFirst(ns, ds, fs, md, rel_path, fail) ==
    LET note_dir   == Components(rel_path)
        note_index == Position(ns, rel_path)
        removed    == IF note_index = 0 THEN ns ELSE RemoveAt(ns, note_index)
        gone       == remove_dir_all(ds, note_dir)
    IN  IF ~Exists(ds, note_dir)
        THEN Ret(ns, ds, fs, md, "notfound", FALSE)
        ELSE IF note_index # 0 /\ fail = "save"
        THEN Ret(removed, ds, fs, md, "save", FALSE)
        ELSE IF fail = "rmdir"
        THEN Ret(removed, ds, fs,
                 IF note_index = 0 THEN md ELSE SavedMetadata(removed),
                 "rmdir", note_index # 0)
        ELSE IF note_index = 0
        THEN Ret(removed, gone, FilesIn(fs, gone), MetadataIn(md, gone),
                 "ok", FALSE)
        ELSE Ret(removed, create_dir_all(gone, Root), FilesIn(fs, gone),
                 SavedMetadata(removed), "ok", TRUE)

\* fail: "rmdir" (fs::remove_dir_all), "save" (save_metadata), "none".
delete_note(ns, ds, fs, md, rel_path, fail) ==
    LET note_dir   == Components(rel_path)
        note_index == Position(ns, rel_path)
        removed    == IF note_index = 0 THEN ns ELSE RemoveAt(ns, note_index)
        gone       == remove_dir_all(ds, note_dir)
    IN  \* canonicalize of the note path fails exactly when the path does not
        \* exist, and then the exists() re-check fails too, whether or not the
        \* notebook path itself canonicalizes; past this check the directory
        \* exists, so the else branch of "if note_dir_path.exists()" is dead
        IF ~Exists(ds, note_dir)
        THEN Ret(ns, ds, fs, md, "notfound", FALSE)
        ELSE IF fail = "rmdir"
        THEN Ret(removed, ds, fs, md, "rmdir", FALSE)
        ELSE IF note_index = 0
        THEN Ret(removed, gone, FilesIn(fs, gone), MetadataIn(md, gone),
                 "ok", FALSE)
        ELSE IF fail = "save"
        THEN Ret(removed, gone, FilesIn(fs, gone), MetadataIn(md, gone),
                 "save", FALSE)
        ELSE Ret(removed, create_dir_all(gone, Root), FilesIn(fs, gone),
                 SavedMetadata(removed), "ok", TRUE)

\* the single-note branch: the first record equal to current_rel_path
RewriteNote(ns, current_rel_path, new_rel_path) ==
    LET i == Position(ns, current_rel_path)
    IN  [j \in 1..Len(ns) |->
            IF j = i THEN [ns[j] EXCEPT !.rel_path = new_rel_path] ELSE ns[j]]

\* the folder branch, one record: the body of "for note in notes.iter_mut()"
RewritePath(rel_path, current_rel_path, new_rel_path) ==
    LET old_prefix == IF current_rel_path = <<>> THEN <<>>
                      ELSE current_rel_path \o <<Slash>>
        new_prefix == IF new_rel_path = <<>> THEN <<>>
                      ELSE new_rel_path \o <<Slash>>
    IN  IF StartsWith(rel_path, old_prefix)
        THEN new_prefix \o TrimStartMatches(rel_path, old_prefix)
        ELSE IF rel_path = current_rel_path /\ current_rel_path # <<>>
        THEN new_rel_path
        ELSE rel_path

RewriteFolder(ns, current_rel_path, new_rel_path) ==
    [j \in 1..Len(ns) |->
        [ns[j] EXCEPT !.rel_path =
            RewritePath(ns[j].rel_path, current_rel_path, new_rel_path)]]

\* mutant: a folder move that always counts the metadata as updated
FolderTouches_Always(ns, current_rel_path) == TRUE

\* updated_metadata of the folder branch
FolderTouches(ns, current_rel_path) ==
    \E j \in 1..Len(ns) :
        \/ StartsWith(ns[j].rel_path,
                      IF current_rel_path = <<>> THEN <<>>
                      ELSE current_rel_path \o <<Slash>>)
        \/ ns[j].rel_path = current_rel_path /\ current_rel_path # <<>>

\* mutant: move_note rewriting the records before it renames on disk
move_note_RewritesFirst(ns, ds, fs, md, current_rel_path, new_rel_path, fail) ==
    LET current_fs_path == Components(current_rel_path)
        new_fs_path     == Components(new_rel_path)
        parent          == Parent(new_fs_path)
        with_parent     == create_dir_all(ds, parent)
        renamed_dirs    == RenameDirs(with_parent, current_fs_path, new_fs_path)
        renamed_files   == RenameFiles(fs, current_fs_path, new_fs_path)
        is_moving_note_dir == current_fs_path \in DOMAIN fs
        updated_metadata ==
            IF is_moving_note_dir THEN InMetadata(ns, current_rel_path)
            ELSE FolderTouches(ns, current_rel_path)
        rewritten ==
            IF is_moving_note_dir
            THEN RewriteNote(ns, current_rel_path, new_rel_path)
            ELSE RewriteFolder(ns, current_rel_path, new_rel_path)
    IN  IF InvalidRelPath(new_rel_path)
        THEN Ret(ns, ds, fs, md, "invalid", FALSE)
        ELSE IF ~Exists(ds, current_fs_path)
        THEN Ret(ns, ds, fs, md, "notfound", FALSE)
        ELSE IF Exists(ds, new_fs_path)
        THEN Ret(ns, ds, fs, md, "conflict", FALSE)
        ELSE IF ~Exists(ds, parent) /\ fail = "mkdir"
        THEN Ret(ns, ds, fs, md, "mkdir", FALSE)
        ELSE IF fail = "rename" \/ RenameRefused(current_fs_path, new_fs_path)
        THEN Ret(rewritten, with_parent, fs, md, "rename", FALSE)
        ELSE IF ~updated_metadata
        \* Ok(new_rel_path.to_string())
        THEN Ret(rewritten, renamed_dirs, renamed_files, md, "ok", FALSE)
                @@ [value |-> new_rel_path]
        ELSE IF fail = "save"
        THEN Ret(rewritten, renamed_dirs, renamed_files, md, "save", FALSE)
        ELSE Ret(rewritten, renamed_dirs, renamed_files,
                 SavedMetadata(rewritten), "ok", TRUE)
                @@ [value |-> new_rel_path]

\* fail: "mkdir" (create_dir_all of the target's parent), "rename"
\* (fs::rename), "save" (save_metadata), "none".
move_note(ns, ds, fs, md, current_rel_path, new_rel_path, fail) ==
    LET current_fs_path == Components(current_rel_path)
        new_fs_path     == Components(new_rel_path)
        parent          == Parent(new_fs_path)
        with_parent     == create_dir_all(ds, parent)
        renamed_dirs    == RenameDirs(with_parent, current_fs_path, new_fs_path)
        renamed_files   == RenameFiles(fs, current_fs_path, new_fs_path)
        \* evaluated after the rename, on the renamed tree
        is_moving_note_dir == current_fs_path \in DOMAIN renamed_files
        updated_metadata ==
            IF is_moving_note_dir THEN InMetadata(ns, current_rel_path)
            ELSE FolderTouches(ns, current_rel_path)
        rewritten ==
            IF is_moving_note_dir
            THEN RewriteNote(ns, current_rel_path, new_rel_path)
            ELSE RewriteFolder(ns, current_rel_path, new_rel_path)
    IN  IF InvalidRelPath(new_rel_path)
        THEN Ret(ns, ds, fs, md, "invalid", FALSE)
        ELSE IF ~Exists(ds, current_fs_path)
        THEN Ret(ns, ds, fs, md, "notfound", FALSE)
        \* the canonicalize checks cannot reject: both paths resolve below
        \* the canonical root
        ELSE IF Exists(ds, new_fs_path)
        THEN Ret(ns, ds, fs, md, "conflict", FALSE)
        ELSE IF ~Exists(ds, parent) /\ fail = "mkdir"
        THEN Ret(ns, ds, fs, md, "mkdir", FALSE)
        ELSE IF fail = "rename" \/ RenameRefused(current_fs_path, new_fs_path)
        THEN Ret(ns, with_parent, fs, md, "rename", FALSE)
        ELSE IF ~updated_metadata
        \* Ok(new_rel_path.to_string())
        THEN Ret(rewritten, renamed_dirs, renamed_files, md, "ok", FALSE)
                @@ [value |-> new_rel_path]
        ELSE IF fail = "save"
        THEN Ret(rewritten, renamed_dirs, renamed_files, md, "save", FALSE)
        ELSE Ret(rewritten, renamed_dirs, renamed_files,
                 SavedMetadata(rewritten), "ok", TRUE)
                @@ [value |-> new_rel_path]

----------------------------------------------------------------------------
(* The undo history of the editor                                          *)
(* (src/src/components/editor/text_management/undo_manager.rs).  A content *)
(* is a string taken whole: the code only compares contents and tests      *)
(* them for emptiness.                                                     *)

\* struct UndoManager
UndoManager(histories, indices) ==
    [undo_histories |-> histories, undo_indices |-> indices]

\* Option<String>, and the panic of an index out of bounds
Some(content) == [tag |-> "Some", value |-> content]
None == [tag |-> "None", value |-> ""]
OutOfBounds == [tag |-> "panic", value |-> ""]

initialize_history(um, note_path) ==
    LET histories ==
            IF note_path \notin DOMAIN um.undo_histories
            THEN HashMapInsert(um.undo_histories, note_path, <<>>)
            ELSE um.undo_histories
        history_index == Len(histories[note_path])
    IN  UndoManager(histories,
                    HashMapInsert(um.undo_indices, note_path, history_index))

\* mutant: add_to_history that keeps the states beyond the index
add_to_history_KeepsRedo(um, note_path, content) ==
    LET current_index == IF note_path \in DOMAIN um.undo_indices
                         THEN um.undo_indices[note_path] ELSE 0
        history   == IF note_path \in DOMAIN um.undo_histories
                     THEN um.undo_histories[note_path] ELSE <<>>
        pushed    == Append(history, content)
        new_index == IF current_index < Len(history) THEN current_index + 1
                     ELSE Len(pushed)
    IN  UndoManager(HashMapInsert(um.undo_histories, note_path, pushed),
                    HashMapInsert(um.undo_indices, note_path, new_index))

add_to_history(um, note_path, content) ==
    LET current_index == IF note_path \in DOMAIN um.undo_indices
                         THEN um.undo_indices[note_path] ELSE 0
        history   == IF note_path \in DOMAIN um.undo_histories
                     THEN um.undo_histories[note_path] ELSE <<>>
        truncated == IF current_index < Len(history)
                     THEN SubSeq(history, 1, current_index) ELSE history
        pushed    == Append(truncated, content)
        new_index == Len(pushed)
    IN  UndoManager(HashMapInsert(um.undo_histories, note_path, pushed),
                    HashMapInsert(um.undo_indices, note_path, new_index))

\* mutant: handle_initial_content pushing the loaded content onto a history
\* whether or not it differs
handle_initial_content_AlwaysPushes(um, note_path, content) ==
    LET history == IF note_path \in DOMAIN um.undo_histories
                   THEN um.undo_histories[note_path] ELSE <<>>
        pushed == Append(history, content)
    IN  IF history = <<>> /\ content = ""
        THEN UndoManager(
                HashMapInsert(um.undo_histories, note_path, <<>>),
                HashMapInsert(um.undo_indices, note_path, 0))
        ELSE UndoManager(
                HashMapInsert(um.undo_histories, note_path, pushed),
                HashMapInsert(um.undo_indices, note_path, Len(pushed)))

handle_initial_content(um, note_path, content) ==
    LET history == IF note_path \in DOMAIN um.undo_histories
                   THEN um.undo_histories[note_path] ELSE <<>>
        current_index == IF note_path \in DOMAIN um.undo_indices
                         THEN um.undo_indices[note_path] ELSE 0
        pushed == Append(history, content)
    IN  IF history = <<>>
        THEN IF content # ""
             THEN UndoManager(
                    HashMapInsert(um.undo_histories, note_path, <<content>>),
                    HashMapInsert(um.undo_indices, note_path, 1))
             ELSE UndoManager(
                    HashMapInsert(um.undo_histories, note_path, <<>>),
                    HashMapInsert(um.undo_indices, note_path, 0))
        \* history[current_index - 1], counted from zero
        ELSE IF /\ current_index > 0
                /\ current_index <= Len(history)
                /\ history[current_index] # content
        THEN UndoManager(
                HashMapInsert(um.undo_histories, note_path, pushed),
                HashMapInsert(um.undo_indices, note_path, Len(pushed)))
        ELSE um

\* what get_previous_content returns, and the manager it leaves
Previous(um, result) == [um |-> um, result |-> result]

\* mutant: get_previous_content that does not move the index
get_previous_content_KeepsIndex(um, note_path) ==
    IF /\ note_path \in DOMAIN um.undo_indices
       /\ um.undo_indices[note_path] > 0
       /\ note_path \in DOMAIN um.undo_histories
       /\ um.undo_histories[note_path] # <<>>
    THEN LET current_index == um.undo_indices[note_path]
             history == um.undo_histories[note_path]
         IN  IF current_index > Len(history)
             THEN Previous(um, OutOfBounds)
             ELSE Previous(um, Some(history[current_index]))
    ELSE Previous(um, None)

get_previous_content(um, note_path) ==
    IF /\ note_path \in DOMAIN um.undo_indices
       /\ um.undo_indices[note_path] > 0
       /\ note_path \in DOMAIN um.undo_histories
       /\ um.undo_histories[note_path] # <<>>
    THEN LET current_index == um.undo_indices[note_path]
             history == um.undo_histories[note_path]
             new_index == current_index - 1
         IN  \* history[new_index], counted from zero
             IF new_index + 1 > Len(history)
             THEN Previous(um, OutOfBounds)
             ELSE Previous(
                    UndoManager(um.undo_histories,
                                HashMapInsert(um.undo_indices, note_path,
                                              new_index)),
                    Some(history[new_index + 1]))
    ELSE Previous(um, None)

\* mutant: handle_path_change that moves the history and leaves the index
handle_path_change_HistoryOnly(um, old_path, new_path) ==
    IF old_path \in DOMAIN um.undo_histories
    THEN UndoManager(
            HashMapInsert(HashMapRemove(um.undo_histories, old_path),
                          new_path, um.undo_histories[old_path]),
            um.undo_indices)
    ELSE um

handle_path_change(um, old_path, new_path) ==
    LET histories ==
            IF old_path \in DOMAIN um.undo_histories
            THEN HashMapInsert(HashMapRemove(um.undo_histories, old_path),
                               new_path, um.undo_histories[old_path])
            ELSE um.undo_histories
        indices ==
            IF old_path \in DOMAIN um.undo_indices
            THEN HashMapInsert(HashMapRemove(um.undo_indices, old_path),
                               new_path, um.undo_indices[old_path])
            ELSE um.undo_indices
    IN  UndoManager(histories, indices)

remove_history(um, note_path) ==
    UndoManager(HashMapRemove(um.undo_histories, note_path),
                HashMapRemove(um.undo_indices, note_path))

----------------------------------------------------------------------------
(* The note explorer (src/src/components/note_explorer/note_explorer.rs):  *)
(* its note list, the expanded state of its folders and the tree its view  *)
(* builds from the list.                                                   *)

\* struct NoteExplorer
NoteExplorer(ns, expanded) == [notes |-> ns, expanded_folders |-> expanded]

\* where Vec::sort_by(|a, b| a.rel_path.cmp(&b.rel_path)), a stable sort,
\* puts one more record
InsertByRelPath(sorted, note) ==
    LET later == { j \in 1..Len(sorted) :
                        StrLess(note.rel_path, sorted[j].rel_path) }
        at == IF later = {} THEN Len(sorted) + 1
              ELSE CHOOSE j \in later : \A k \in later : j <= k
    IN  SubSeq(sorted, 1, at - 1) \o <<note>> \o SubSeq(sorted, at, Len(sorted))

RECURSIVE SortByRelPath(_)
SortByRelPath(ns) ==
    IF ns = <<>> THEN <<>>
    ELSE InsertByRelPath(SortByRelPath(SubSeq(ns, 1, Len(ns) - 1)),
                         ns[Len(ns)])

\* the folder paths NotesLoaded collects from the ancestors of one note
FolderPathsOf(rel_path) ==
    LET components == PathIter(rel_path)
        parent == IF components = <<>> THEN <<>>
                  ELSE SubSeq(components, 1, Len(components) - 1)
    IN  { Join(SubSeq(parent, 1, k)) : k \in 1..Len(parent) }
            \ { <<>>, <<Dot>> }

all_folders(ns) == UNION { FolderPathsOf(ns[i].rel_path) : i \in 1..Len(ns) }

\* mutant: NotesLoaded that collapses every folder
NotesLoaded_AllCollapsed(explorer, loaded) ==
    LET sorted == SortByRelPath(loaded)
    IN  NoteExplorer(sorted,
            [f \in all_folders(sorted) \cup {<<>>} |-> FALSE])

\* mutant: NotesLoaded that keeps the flags of the folders that are gone
NotesLoaded_KeepsGone(explorer, loaded) ==
    LET sorted == SortByRelPath(loaded)
        old == explorer.expanded_folders
    IN  NoteExplorer(sorted,
            [f \in all_folders(sorted) \cup {<<>>} \cup DOMAIN old |->
                IF f \in DOMAIN old THEN old[f] ELSE FALSE])

\* NoteExplorer::update(Message::NotesLoaded(notes))
NotesLoaded(explorer, loaded) ==
    LET sorted == SortByRelPath(loaded)
        old == explorer.expanded_folders
    IN  NoteExplorer(sorted,
            [f \in all_folders(sorted) \cup {<<>>} |->
                IF f \in DOMAIN old THEN old[f] ELSE FALSE])

\* mutant: ToggleFolder that expands the folder, and adds it when it is not
\* in the map
ToggleFolder_Expands(explorer, folder_path) ==
    NoteExplorer(explorer.notes,
                 HashMapInsert(explorer.expanded_folders, folder_path, TRUE))

\* NoteExplorer::update(Message::ToggleFolder(folder_path))
ToggleFolder(explorer, folder_path) ==
    IF folder_path \in DOMAIN explorer.expanded_folders
    THEN NoteExplorer(explorer.notes,
            [explorer.expanded_folders EXCEPT ![folder_path] = ~@])
    ELSE explorer

\* enum NodeOwned: Folder and NoteDir (a NoteDir's metadata is its path and
\* its labels; it has no children)
Folder(name, children, is_expanded, path) ==
    [kind |-> "Folder", name |-> name, children |-> children,
     is_expanded |-> is_expanded, path |-> path, labels |-> <<>>]

NoteDir(name, note) ==
    [kind |-> "NoteDir", name |-> name, children |-> <<>>,
     is_expanded |-> FALSE, path |-> note.rel_path, labels |-> note.labels]

\* current_nodes_list.iter().position(a Folder named component_name); 0 for
\* None
FolderPosition(nodes, component_name) ==
    LET found == { j \in 1..Len(nodes) :
                    nodes[j].kind = "Folder" /\ nodes[j].name = component_name }
    IN  IF found = {} THEN 0
        ELSE CHOOSE j \in found : \A k \in found : j <= k

\* the loop over the components of one note, from component i on, in the
\* list nodes; folder_path_components are the folders passed so far
RECURSIVE PlaceNote(_, _, _, _, _, _)
PlaceNote(nodes, note, components, i, folder_path_components, expanded) ==
    IF i > Len(components) THEN nodes
    ELSE IF components[i] = <<>>
    THEN PlaceNote(nodes, note, components, i + 1, folder_path_components,
                   expanded)
    ELSE IF i = Len(components)
    THEN Append(nodes, NoteDir(components[i], note))
    ELSE LET component_name == components[i]
             existing_folder_index == FolderPosition(nodes, component_name)
             below == Append(folder_path_components, component_name)
             folder_path_str == Join(below)
         IN  IF existing_folder_index # 0
             THEN [nodes EXCEPT ![existing_folder_index].children =
                        PlaceNote(@, note, components, i + 1, below,
                                  expanded)]
             ELSE Append(nodes,
                    Folder(component_name,
                           PlaceNote(<<>>, note, components, i + 1, below,
                                     expanded),
                           IF folder_path_str \in DOMAIN expanded
                           THEN expanded[folder_path_str] ELSE FALSE,
                           folder_path_str))

\* the loop "for note in sorted_notes"
RECURSIVE PlaceNotes(_, _, _)
PlaceNotes(nodes, sorted_notes, expanded) ==
    IF sorted_notes = <<>> THEN nodes
    ELSE PlaceNotes(
            PlaceNote(nodes, Head(sorted_notes),
                      PathIter(Head(sorted_notes).rel_path), 1, <<>>,
                      expanded),
            Tail(sorted_notes), expanded)

\* the comparison of sort_owned_nodes: Ordering::Less
NodeLess(a, b) ==
    \/ a.kind = b.kind /\ StrLess(a.name, b.name)
    \/ a.kind = "Folder" /\ b.kind = "NoteDir"

\* where the stable nodes.sort_by puts one more node
InsertNode(sorted, node) ==
    LET later == { j \in 1..Len(sorted) : NodeLess(node, sorted[j]) }
        at == IF later = {} THEN Len(sorted) + 1
              ELSE CHOOSE j \in later : \A k \in later : j <= k
    IN  SubSeq(sorted, 1, at - 1) \o <<node>> \o SubSeq(sorted, at, Len(sorted))

RECURSIVE SortNodes(_)
SortNodes(nodes) ==
    IF nodes = <<>> THEN <<>>
    ELSE InsertNode(SortNodes(SubSeq(nodes, 1, Len(nodes) - 1)),
                    nodes[Len(nodes)])

\* mutant: sort_owned_nodes that leaves every list in the order it was built
RECURSIVE sort_owned_nodes_AsBuilt(_)
sort_owned_nodes_AsBuilt(nodes) ==
    [j \in 1..Len(nodes) |->
        IF nodes[j].kind = "Folder"
        THEN [nodes[j] EXCEPT !.children = sort_owned_nodes_AsBuilt(@)]
        ELSE nodes[j]]

RECURSIVE sort_owned_nodes(_)
sort_owned_nodes(nodes) ==
    LET sorted == SortNodes(nodes)
    IN  [j \in 1..Len(sorted) |->
            IF sorted[j].kind = "Folder"
            THEN [sorted[j] EXCEPT !.children = sort_owned_nodes(@)]
            ELSE sorted[j]]

build_owned_tree(ns, expanded) ==
    sort_owned_nodes(PlaceNotes(<<>>, SortByRelPath(ns), expanded))

\* render_owned_nodes shows the button of a note when every folder above it
\* is expanded; view shows no tree when the list is empty
Rendered(explorer, rel_path) ==
    LET components == PathIter(rel_path)
    IN  /\ \E i \in 1..Len(explorer.notes) :
                explorer.notes[i].rel_path = rel_path
        /\ \A k \in 1..(Len(components) - 1) :
            LET folder == Join(SubSeq(components, 1, k))
            IN  /\ folder \in DOMAIN explorer.expanded_folders
                /\ explorer.expanded_folders[folder]

----------------------------------------------------------------------------
(* The editor when it starts (src/src/components/editor/editor.rs) *)

\* Option<String>::None of a path
NoPath == [tag |-> "None", value |-> <<>>]

\* Editor::new: the fields of struct Editor that the handlers below read or
\* write, but for the undo history and the note explorer
EditorNew ==
    [selected_note_path |-> NoPath,
     selected_note_labels |-> <<>>,
     new_label_text |-> <<>>,
     markdown_text |-> "",
     loading_note |-> FALSE,
     show_visualizer |-> FALSE,
     show_new_note_input |-> FALSE,
     new_note_path_input |-> <<>>,
     show_move_note_input |-> FALSE,
     move_note_current_path |-> NoPath,
     move_note_new_path_input |-> <<>>,
     show_about_info |-> FALSE]

----------------------------------------------------------------------------
(* The relative paths the calls are given *)

Empty      == <<>>
OneDot     == <<".">>
TwoDots    == <<".", ".">>
Absolute   == <<"/", "x">>
Traversal  == <<".", ".", "/", "x">>
ABC        == <<"a", "/", "b", "/", "c">>
Docs       == <<"d", "o", "c", "s">>
DocsA      == <<"d", "o", "c", "s", "/", "a">>
DocsDocsA  == <<"d", "o", "c", "s", "/", "d", "o", "c", "s", "/", "a">>
Notes      == <<"n", "o", "t", "e", "s">>

Malformed   == {Empty, OneDot, TwoDots, Absolute, Traversal}
CreatePaths == Malformed \cup {DocsA, DocsDocsA, ABC}
DeletePaths == {Empty, OneDot, Docs, DocsA, ABC}
MoveFrom    == {Docs, ABC}
MoveTo      == Malformed \cup {Notes}

CreateFails == {"none", "mkdir", "write", "save"}
DeleteFails == {"none", "rmdir", "save"}
MoveFails   == {"none", "mkdir", "rename", "save"}

----------------------------------------------------------------------------
(* The state machine: one call at a time on one notebook, each call given  *)
(* the record list the previous call left.                                 *)

NoCall == [op |-> "none", out |-> "ok"]

Init ==
    /\ notes = <<>>
    /\ dirs = {Root}
    /\ files = [d \in {} |-> ""]
    /\ metadata = NoMetadata
    /\ last = NoCall
    /\ faults = 0
    /\ undo_histories = HashMapNew
    /\ undo_indices = HashMapNew
    /\ expanded_folders = HashMapNew
    /\ tree = <<>>
    /\ metadata_json = NoFile
    /\ editor = EditorNew
    /\ pending = EmptyBag
    /\ clicks = 0

\* the results that report a failed filesystem step or a failed index write
Failed(out) == out \in {"mkdir", "write", "rmdir", "rename", "save"}

Apply(op, r) ==
    /\ notes' = r.notes
    /\ dirs' = r.dirs
    /\ files' = r.files
    /\ metadata' = r.metadata
    /\ last' = [op |-> op, out |-> r.out]
    /\ faults' = IF Failed(r.out) /\ faults < MaxFaults THEN faults + 1
                 ELSE faults
    /\ UNCHANGED <<undoVars, explorerVars, indexVars, editorVars>>

\* the environment makes a step fail only while fewer than MaxFaults calls
\* have failed
MayFail(fail) == fail = "none" \/ faults < MaxFaults

Create ==
    \E rel_path \in CreatePaths, fail \in CreateFails :
        /\ Len(notes) < MaxNotes
        /\ MayFail(fail)
        /\ Apply("create", create_new_note(notes, dirs, files, metadata,
                                           rel_path, fail))

Delete ==
    \E rel_path \in DeletePaths, fail \in DeleteFails :
        /\ MayFail(fail)
        /\ Apply("delete", delete_note(notes, dirs, files, metadata,
                                       rel_path, fail))

Move ==
    \E current_rel_path \in MoveFrom, new_rel_path \in MoveTo,
       fail \in MoveFails :
        \* handle_confirm_move_note returns before the call when the new
        \* path equals the current one
        /\ new_rel_path # current_rel_path
        /\ MayFail(fail)
        /\ Apply("move", move_note(notes, dirs, files, metadata,
                                   current_rel_path, new_rel_path, fail))

Next == Create \/ Delete \/ Move

Spec == Init /\ [][Next]_vars

----------------------------------------------------------------------------
(* The undo history driven call by call: every method of UndoManager, on   *)
(* any key, in any order.                                                  *)

UndoKeys == {DocsA, Notes}
Contents == {"", "v1", "v2"}

Manager == UndoManager(undo_histories, undo_indices)

HistoryLen(um, note_path) ==
    IF note_path \in DOMAIN um.undo_histories
    THEN Len(um.undo_histories[note_path]) ELSE 0

\* a call is made only if it leaves every history within MaxHistory
WithinBound(um) == \A k \in DOMAIN um.undo_histories :
                        Len(um.undo_histories[k]) <= MaxHistory

ApplyUndo(op, um, out) ==
    /\ undo_histories' = um.undo_histories
    /\ undo_indices' = um.undo_indices
    /\ last' = [op |-> op, out |-> out]
    /\ UNCHANGED <<repoVars, explorerVars, indexVars, editorVars>>

Initialize ==
    \E k \in UndoKeys :
        LET um == initialize_history(Manager, k)
        IN  /\ WithinBound(um)
            /\ ApplyUndo("initialize", um, "ok")

SeedInitialContent ==
    \E k \in UndoKeys, content \in Contents :
        LET um == handle_initial_content(Manager, k, content)
        IN  /\ WithinBound(um)
            /\ ApplyUndo("seed", um, "ok")

Record ==
    \E k \in UndoKeys, content \in Contents :
        LET um == add_to_history(Manager, k, content)
        IN  /\ WithinBound(um)
            \* out tells whether the call found the index below the length
            /\ ApplyUndo("record", um,
                         IF /\ k \in DOMAIN undo_indices
                            /\ undo_indices[k] < HistoryLen(Manager, k)
                         THEN "truncated" ELSE "ok")

Undo ==
    \E k \in UndoKeys :
        LET p == get_previous_content(Manager, k)
        IN  /\ WithinBound(p.um)
            /\ ApplyUndo("undo", p.um,
                         IF p.result.tag = "Some" THEN p.result.value
                         ELSE p.result.tag)

Rename ==
    \E old_path \in UndoKeys, new_path \in UndoKeys :
        LET um == handle_path_change(Manager, old_path, new_path)
        IN  /\ WithinBound(um)
            \* out tells whether the call found an entry to move
            /\ ApplyUndo("rename", um,
                         IF /\ old_path \in DOMAIN undo_histories
                            /\ old_path # new_path
                         THEN "moved" ELSE "ok")

Remove ==
    \E k \in UndoKeys :
        LET um == remove_history(Manager, k)
        IN  /\ WithinBound(um)
            /\ ApplyUndo("remove", um, "ok")

NextUndo ==
    Initialize \/ SeedInitialContent \/ Record \/ Undo \/ Rename \/ Remove

SpecUndo == Init /\ [][NextUndo]_vars

----------------------------------------------------------------------------
(* The explorer on its own: lists are loaded, folders are toggled and the  *)
(* view builds the tree.                                                   *)

A  == <<"a">>
B  == <<"b">>
AX == <<"a", "/", "x">>
AY == <<"a", "/", "y">>
BX == <<"b", "/", "x">>

TreePaths == {A, B, AX, AY, BX, ABC}

\* the lists metadata.json can hold: distinct paths, in any order
RECURSIVE ListsOf(_, _)
ListsOf(paths, n) ==
    IF n = 0 THEN {<<>>}
    ELSE LET shorter == ListsOf(paths, n - 1)
         IN  shorter \cup
             { Append(l, NoteMetadata(p)) :
                 l \in { m \in shorter : Len(m) = n - 1 }, p \in paths }

Distinct(ns) ==
    \A i, j \in 1..Len(ns) : i # j => ns[i].rel_path # ns[j].rel_path

LoadedLists == { l \in ListsOf(TreePaths, MaxNotes) : Distinct(l) }

Explorer == NoteExplorer(notes, expanded_folders)

\* NoteExplorer::view, which follows every update
View(explorer) ==
    IF explorer.notes = <<>> THEN <<>>
    ELSE build_owned_tree(explorer.notes, explorer.expanded_folders)

ApplyExplorer(op, explorer) ==
    /\ notes' = explorer.notes
    /\ expanded_folders' = explorer.expanded_folders
    /\ tree' = View(explorer)
    /\ last' = [op |-> op, out |-> "ok"]
    /\ UNCHANGED <<dirs, files, metadata, faults, undoVars, indexVars,
                   editorVars>>

ExplorerNotesLoaded ==
    \E loaded \in LoadedLists :
        /\ Distinct(loaded)
        /\ ApplyExplorer("NotesLoaded", NotesLoaded(Explorer, loaded))

\* the button of a folder is shown when the folders above it are expanded
ExplorerToggleFolder ==
    \E folder_path \in DOMAIN expanded_folders :
        /\ folder_path # <<>>
        /\ \A k \in 1..(Len(PathIter(folder_path)) - 1) :
            expanded_folders[Join(SubSeq(PathIter(folder_path), 1, k))]
        /\ ApplyExplorer("ToggleFolder", ToggleFolder(Explorer, folder_path))

NextExplorer == ExplorerNotesLoaded \/ ExplorerToggleFolder

SpecExplorer == Init /\ [][NextExplorer]_vars

----------------------------------------------------------------------------
(* The index file on its own: save_metadata and load_notes_metadata called *)
(* one at a time on one notebook.  notes is the list saved or loaded last. *)

Plain == <<"x">>
Quoted == <<"a", "\"", "b">>
Escaped == <<"\\">>

IndexRecords ==
    { [rel_path |-> DocsA, labels |-> <<>>],
      [rel_path |-> DocsA, labels |-> <<Plain, Quoted>>],
      [rel_path |-> Notes, labels |-> <<Escaped>>],
      [rel_path |-> Notes, labels |-> <<Plain>>],
      [rel_path |-> Notes, labels |-> <<>>] }

RECURSIVE RecordLists(_)
RecordLists(n) ==
    IF n = 0 THEN {<<>>}
    ELSE RecordLists(n - 1) \cup
         { Append(l, r) : l \in { l \in RecordLists(n - 1) : Len(l) = n - 1 },
                          r \in IndexRecords }

ApplyIndex(op, ns, r) ==
    /\ notes' = ns
    /\ dirs' = r.dirs
    /\ metadata_json' = r.file
    /\ last' = [op |-> op, out |-> r.out]
    /\ faults' = IF Failed(r.out) /\ faults < MaxFaults THEN faults + 1
                 ELSE faults
    /\ UNCHANGED <<files, metadata, undoVars, explorerVars, editorVars>>

SaveMetadata ==
    \E records \in RecordLists(MaxRecords),
       fail \in {"none", "mkdir", "write"} :
        LET r == save_metadata(dirs, metadata_json, records, fail)
        IN  /\ MayFail(fail)
            /\ ApplyIndex("save", IF r.out = "ok" THEN records ELSE notes, r)

LoadNotesMetadata ==
    /\ ApplyIndex("load", load_notes_metadata(metadata_json),
                  [dirs |-> dirs, file |-> metadata_json, out |-> "ok"])

NextIndex == SaveMetadata \/ LoadNotesMetadata

SpecIndex == Init /\ [][NextIndex]_vars

----------------------------------------------------------------------------
(* The editor (src/src/components/editor/editor.rs).  Editor::update       *)
(* handles one message at a time; a handler changes the editor and returns *)
(* commands.  Command::perform starts a task that runs beside the editor   *)
(* and whose result comes back as a message, so tasks and messages of      *)
(* several handlers are in flight together and end in any order.           *)
(*                                                                         *)
(* The notebook path is not empty: the tests of notebook_path.is_empty()   *)
(* in the handlers are false throughout.  markdown_text stands for the     *)
(* text of the editor's buffer (self.content) too: the handlers set the    *)
(* two together.  Of the visualizer the model keeps the flag that shows it *)
(* and the selection of a note in its graph.                               *)

\* the editor with its undo history and its note explorer
EditorOf(state, um, explorer) ==
    [state |-> state, undo_manager |-> um, note_explorer |-> explorer]

\* a task or a message in flight.  path of a ContentChanged, a NoteMoved or
\* a NoteDeleted message is the note the task was started for: the message
\* of the code does not carry it.
InFlight(kind, path, to, content, ns) ==
    [kind |-> kind, path |-> path, to |-> to, content |-> content,
     notes |-> ns]

\* Command::perform(notebook::load_notes_metadata(..), NotesLoaded)
LoadNotes == InFlight("load_notes_metadata", <<>>, <<>>, "", <<>>)
\* Command::perform(async { read_to_string(..) }, ContentChanged)
ReadNote(note_path) == InFlight("read_to_string", note_path, <<>>, "", <<>>)
\* Command::perform(async { save_metadata(..) }, MetadataSaved)
SaveNotes(ns) == InFlight("save_metadata", <<>>, <<>>, "", ns)
\* Command::perform(async { delete_note(..) }, NoteDeleted)
DeleteTask(note_path, ns) == InFlight("delete_note", note_path, <<>>, "", ns)
\* Command::perform(async { move_note(..) }, NoteMoved)
MoveTask(current_path, new_path, ns) ==
    InFlight("move_note", current_path, new_path, "", ns)

\* Command::perform(async { save_note_content(..) }, NoteContentSaved)
SaveContent(note_path, content) ==
    InFlight("save_note_content", note_path, <<>>, content, <<>>)

MessageNotesLoaded(ns) == InFlight("NotesLoaded", <<>>, <<>>, "", ns)
MessageContentChanged(content, note_path) ==
    InFlight("ContentChanged", note_path, <<>>, content, <<>>)
MessageNoteSelected(note_path) ==
    InFlight("NoteSelected", note_path, <<>>, "", <<>>)
\* the confirmation dialog, which the user answers
MessageConfirmDeleteNote == InFlight("ConfirmDeleteNote", <<>>, <<>>, "", <<>>)
\* result is "ok" or the kind of the Err
MessageNoteDeleted(result, note_path) ==
    InFlight("NoteDeleted", note_path, <<>>, result, <<>>)
MessageNoteMoved(result, new_rel_path, current_path) ==
    InFlight("NoteMoved", current_path, new_rel_path, result, <<>>)

\* !self.show_visualizer && !self.show_move_note_input
\* && !self.show_new_note_input && !self.show_about_info
NothingShown(state) ==
    /\ ~state.show_visualizer
    /\ ~state.show_move_note_input
    /\ ~state.show_new_note_input
    /\ ~state.show_about_info

\* Command::perform(async { create_new_note(..) }, NoteCreated)
CreateTask(rel_path, ns) ==
    InFlight("create_new_note", rel_path, <<>>, "", ns)
\* path is the rel_path of the record an Ok carries
MessageNoteCreated(result, rel_path) ==
    InFlight("NoteCreated", rel_path, <<>>, result, <<>>)
\* the alert after a failed create, which the user closes
MessageLoadNotes == InFlight("LoadNotes", <<>>, <<>>, "", <<>>)

\* what a handler leaves: the editor and the commands it returns
Updated(self, commands) == [self |-> self, commands |-> commands]

\* notes.iter().find(|n| n.rel_path == note_path) and its labels; no labels
\* when there is no such note
LabelsOf(ns, note_path) ==
    IF Position(ns, note_path) = 0 THEN <<>>
    ELSE ns[Position(ns, note_path)].labels

\* what NotesLoaded, NoteDeleted(Ok) write when the selection goes
Deselected(state) ==
    [state EXCEPT !.selected_note_path = NoPath,
                  !.selected_note_labels = <<>>,
                  !.markdown_text = "",
                  !.show_move_note_input = FALSE,
                  !.move_note_current_path = NoPath,
                  !.move_note_new_path_input = <<>>]

\* Message::NoteExplorerMessage(NotesLoaded(loaded))
handle_note_explorer_message(self, loaded) ==
    LET explorer == NotesLoaded(self.note_explorer, loaded)
        selected == self.state.selected_note_path
    IN  IF selected.tag = "Some"
        THEN IF Position(explorer.notes, selected.value) = 0
             THEN Updated(EditorOf(Deselected(self.state),
                                   self.undo_manager, explorer), <<>>)
             ELSE Updated(EditorOf(
                    [self.state EXCEPT !.selected_note_labels =
                        LabelsOf(explorer.notes, selected.value)],
                    self.undo_manager, explorer), <<>>)
        ELSE IF explorer.notes # <<>>
        THEN Updated(EditorOf(self.state, self.undo_manager, explorer),
                     <<MessageNoteSelected(explorer.notes[1].rel_path)>>)
        ELSE Updated(EditorOf(self.state, self.undo_manager, explorer), <<>>)

\* Message::NoteSelected(note_path).  CollapseAllAndExpandToNote, which the
\* handler sends to the note explorer, is no message of note_explorer.rs
\* and changes nothing here.
handle_note_selected(self, note_path) ==
    Updated(
        EditorOf(
            [self.state EXCEPT
                !.selected_note_path = Some(note_path),
                !.new_label_text = <<>>,
                !.show_move_note_input = FALSE,
                !.move_note_current_path = NoPath,
                !.move_note_new_path_input = <<>>,
                !.show_about_info = FALSE,
                !.show_new_note_input = FALSE,
                !.selected_note_labels =
                    LabelsOf(self.note_explorer.notes, note_path),
                !.loading_note =
                    IF self.state.show_visualizer THEN @ ELSE TRUE],
            initialize_history(self.undo_manager, note_path),
            self.note_explorer),
        IF self.state.show_visualizer THEN <<>>
        ELSE <<ReadNote(note_path)>>)

\* Message::ContentChanged(new_content)
handle_content_changed(self, new_content) ==
    LET state == self.state
        selected == state.selected_note_path
    IN  IF ~NothingShown(state) THEN Updated(self, <<>>)
        ELSE Updated(
                EditorOf(
                    [state EXCEPT
                        !.loading_note =
                            IF selected.tag = "Some" THEN FALSE ELSE @,
                        !.markdown_text = new_content],
                    IF selected.tag # "Some" THEN self.undo_manager
                    ELSE IF state.loading_note
                    THEN handle_initial_content(self.undo_manager,
                                                selected.value, new_content)
                    ELSE IF state.markdown_text # ""
                            /\ state.markdown_text # new_content
                    THEN add_to_history(self.undo_manager, selected.value,
                                        state.markdown_text)
                    ELSE self.undo_manager,
                    self.note_explorer),
                <<>>)

\* text_editor::Content::perform(action) and Content::text: an Edit types
\* one character at the end of the text, any other action (a click into
\* the text, a cursor key) leaves the text as it is
Perform(content, action) ==
    IF action = "Edit" THEN content \o "x" ELSE content

\* Message::EditorAction(action)
handle_editor_action(self, action) ==
    LET state == self.state
        selected == state.selected_note_path
        content == Perform(state.markdown_text, action)
    IN  IF selected.tag = "Some" /\ NothingShown(state)
        THEN Updated(
                EditorOf(
                    [state EXCEPT !.markdown_text = content],
                    IF action = "Edit"
                    THEN add_to_history(self.undo_manager, selected.value,
                                        state.markdown_text)
                    ELSE self.undo_manager,
                    self.note_explorer),
                <<SaveContent(selected.value, content)>>)
        ELSE Updated(self, <<>>)

\* note.labels.push(label) on the first note with the path
PushLabel(ns, note_path, label) ==
    IF Position(ns, note_path) = 0 THEN ns
    ELSE [ns EXCEPT ![Position(ns, note_path)].labels = Append(@, label)]

\* mutant: AddLabel without the test of selected_note_labels.contains
handle_add_label_Unchecked(self) ==
    LET state == self.state
        selected == state.selected_note_path
        label == Trim(state.new_label_text)
        pushed == PushLabel(self.note_explorer.notes, selected.value, label)
    IN  IF /\ ~state.show_about_info
           /\ selected.tag = "Some"
           /\ label # <<>>
        THEN Updated(
                EditorOf(
                    [state EXCEPT
                        !.selected_note_labels = Append(@, label),
                        !.new_label_text = <<>>],
                    self.undo_manager,
                    NoteExplorer(pushed,
                                 self.note_explorer.expanded_folders)),
                <<SaveNotes(pushed)>>)
        ELSE Updated(self, <<>>)

\* Message::AddLabel
handle_add_label(self) ==
    LET state == self.state
        selected == state.selected_note_path
        label == Trim(state.new_label_text)
        pushed == PushLabel(self.note_explorer.notes, selected.value, label)
    IN  IF /\ ~state.show_about_info
           /\ selected.tag = "Some"
           /\ label # <<>>
           /\ \A i \in 1..Len(state.selected_note_labels) :
                state.selected_note_labels[i] # label
        THEN Updated(
                EditorOf(
                    [state EXCEPT
                        !.selected_note_labels = Append(@, label),
                        !.new_label_text = <<>>],
                    self.undo_manager,
                    NoteExplorer(pushed,
                                 self.note_explorer.expanded_folders)),
                <<SaveNotes(pushed)>>)
        ELSE Updated(self, <<>>)

\* Message::DeleteNote
handle_delete_note(self) ==
    IF self.state.selected_note_path.tag = "Some"
       /\ ~self.state.show_about_info
    THEN Updated([self EXCEPT !.state.show_new_note_input = FALSE,
                              !.state.show_move_note_input = FALSE,
                              !.state.show_visualizer = FALSE,
                              !.state.show_about_info = FALSE],
                 <<MessageConfirmDeleteNote>>)
    ELSE Updated(self, <<>>)

\* Message::ConfirmDeleteNote(confirmed)
handle_confirm_delete_note(self, confirmed) ==
    IF confirmed /\ self.state.selected_note_path.tag = "Some"
    THEN \* self.selected_note_path.take()
         Updated([self EXCEPT !.state.selected_note_path = NoPath],
                 <<DeleteTask(self.state.selected_note_path.value,
                              self.note_explorer.notes)>>)
    ELSE Updated(self, <<>>)

\* Message::NoteDeleted(result).  After an Err the alert sends the same
\* message again when it is closed.
handle_note_deleted(self, message) ==
    IF message.content = "ok"
    THEN Updated(
            EditorOf(
                Deselected(self.state),
                IF self.state.selected_note_path.tag = "Some"
                THEN remove_history(self.undo_manager,
                                    self.state.selected_note_path.value)
                ELSE self.undo_manager,
                self.note_explorer),
            <<LoadNotes>>)
    ELSE Updated(self, <<message, LoadNotes>>)

\* Message::MoveNote
handle_move_note(self) ==
    LET selected == self.state.selected_note_path
    IN  IF selected.tag = "Some" /\ ~self.state.show_about_info
        THEN Updated([self EXCEPT
                        !.state.show_new_note_input = FALSE,
                        !.state.show_visualizer = FALSE,
                        !.state.show_about_info = FALSE,
                        !.state.show_move_note_input = TRUE,
                        !.state.move_note_current_path = Some(selected.value),
                        !.state.move_note_new_path_input = selected.value],
                     <<>>)
        ELSE Updated(self, <<>>)

\* Message::MoveNoteInputChanged(text)
handle_move_note_input_changed(self, text) ==
    IF self.state.show_move_note_input
    THEN [self EXCEPT !.state.move_note_new_path_input = text]
    ELSE self

\* Message::ConfirmMoveNote
handle_confirm_move_note(self) ==
    LET state == self.state
        current_path == state.move_note_current_path.value
        new_path == Trim(state.move_note_new_path_input)
        \* self.move_note_current_path.take()
        taken == [self EXCEPT !.state.move_note_current_path = NoPath,
                              !.state.show_move_note_input = FALSE,
                              !.state.move_note_new_path_input = <<>>]
    IN  IF ~state.show_move_note_input THEN Updated(self, <<>>)
        ELSE IF state.move_note_current_path.tag # "Some"
        THEN Updated(taken, <<>>)
        ELSE IF new_path = <<>>
        THEN Updated(taken, <<MessageNoteMoved("empty", <<>>, current_path)>>)
        ELSE IF new_path = current_path
        THEN IF self.note_explorer.notes # <<>>
             THEN Updated(taken,
                    <<MessageNoteSelected(
                        self.note_explorer.notes[1].rel_path)>>)
             ELSE Updated(taken, <<>>)
        ELSE Updated(taken,
                <<MoveTask(current_path, new_path,
                           self.note_explorer.notes)>>)

\* Message::CancelMoveNote
handle_cancel_move_note(self) ==
    LET cancelled == [self EXCEPT
                        !.state.show_move_note_input = FALSE,
                        !.state.move_note_current_path = NoPath,
                        !.state.move_note_new_path_input = <<>>]
    IN  IF self.state.selected_note_path.tag = "Some"
        THEN Updated(cancelled,
                <<MessageNoteSelected(self.state.selected_note_path.value)>>)
        ELSE IF self.note_explorer.notes # <<>>
        THEN Updated(cancelled,
                <<MessageNoteSelected(self.note_explorer.notes[1].rel_path)>>)
        ELSE Updated(cancelled, <<>>)

\* Message::NoteMoved(result).  After an Err the alert sends the same
\* message again when it is closed.
handle_note_moved(self, message) ==
    IF message.content = "ok"
    THEN Updated(
            [self EXCEPT !.undo_manager =
                IF self.state.move_note_current_path.tag = "Some"
                THEN handle_path_change(@,
                        self.state.move_note_current_path.value, message.to)
                ELSE @],
            <<LoadNotes>>)
    ELSE Updated(self, <<message, LoadNotes>>)

\* Vec::retain(|label| label != &label_to_remove)
Retain(labels, label_to_remove) ==
    SelectSeq(labels, LAMBDA label : label # label_to_remove)

\* note.labels.retain(..) on the first note with the path
RetainLabel(ns, note_path, label_to_remove) ==
    IF Position(ns, note_path) = 0 THEN ns
    ELSE [ns EXCEPT ![Position(ns, note_path)].labels =
                        Retain(@, label_to_remove)]

\* Message::RemoveLabel(label_to_remove)
handle_remove_label(self, label_to_remove) ==
    LET state == self.state
        selected == state.selected_note_path
        retained == RetainLabel(self.note_explorer.notes, selected.value,
                                label_to_remove)
    IN  IF selected.tag = "Some" /\ ~state.show_about_info
        THEN Updated(
                EditorOf(
                    [state EXCEPT
                        !.selected_note_labels = Retain(@, label_to_remove)],
                    self.undo_manager,
                    NoteExplorer(retained,
                                 self.note_explorer.expanded_folders)),
                <<SaveNotes(retained)>>)
        ELSE Updated(self, <<>>)

\* Message::ToggleVisualizer
handle_toggle_visualizer(self) ==
    IF ~self.state.show_visualizer
    THEN Updated([self EXCEPT !.state.show_visualizer = TRUE,
                              !.state.show_new_note_input = FALSE,
                              !.state.show_move_note_input = FALSE,
                              !.state.show_about_info = FALSE],
                 <<>>)
    ELSE Updated([self EXCEPT !.state.show_visualizer = FALSE], <<>>)

\* Message::VisualizerMessage(NoteSelectedInVisualizer(note_path))
handle_note_selected_in_visualizer(self, note_path) ==
    Updated(
        [self EXCEPT
            !.state.show_visualizer = FALSE,
            !.state.show_new_note_input = FALSE,
            !.state.show_move_note_input = FALSE,
            !.state.show_about_info = FALSE,
            !.state.selected_note_path = Some(note_path),
            !.state.new_label_text = <<>>,
            !.state.move_note_current_path = NoPath,
            !.state.move_note_new_path_input = <<>>,
            !.state.selected_note_labels =
                LabelsOf(self.note_explorer.notes, note_path),
            !.state.loading_note = TRUE],
        <<ReadNote(note_path)>>)

\* mutant: NewNote opening its dialog over whatever is shown
handle_new_note_KeepsOthers(self) ==
    Updated([self EXCEPT !.state.show_new_note_input = TRUE,
                         !.state.new_note_path_input = <<>>],
            <<>>)

\* Message::NewNote
handle_new_note(self) ==
    Updated([self EXCEPT !.state.show_new_note_input = TRUE,
                         !.state.new_note_path_input = <<>>,
                         !.state.show_visualizer = FALSE,
                         !.state.show_move_note_input = FALSE,
                         !.state.show_about_info = FALSE],
            <<>>)

\* Message::NewNoteInputChanged(text)
handle_new_note_input_changed(self, text) ==
    IF self.state.show_new_note_input
    THEN [self EXCEPT !.state.new_note_path_input = text]
    ELSE self

\* Message::CreateNote
handle_create_note(self) ==
    LET new_note_rel_path == Trim(self.state.new_note_path_input)
    IN  IF ~self.state.show_new_note_input \/ new_note_rel_path = <<>>
        THEN Updated(self, <<>>)
        ELSE Updated([self EXCEPT !.state.show_new_note_input = FALSE],
                     <<CreateTask(new_note_rel_path,
                                  self.note_explorer.notes)>>)

\* Message::CancelNewNote
handle_cancel_new_note(self) ==
    Updated([self EXCEPT !.state.show_new_note_input = FALSE,
                         !.state.new_note_path_input = <<>>],
            <<>>)

\* mutant: NoteCreated(Err) showing the alert and nothing after it
handle_note_created_NoReload(self, message) ==
    IF message.content = "ok"
    THEN Updated(self, <<LoadNotes, MessageNoteSelected(message.path)>>)
    ELSE Updated(self, <<>>)

\* Message::NoteCreated(result).  After an Err the alert sends LoadNotes to
\* the note explorer when it is closed.
handle_note_created(self, message) ==
    IF message.content = "ok"
    THEN Updated(self, <<LoadNotes, MessageNoteSelected(message.path)>>)
    ELSE Updated(self, <<MessageLoadNotes>>)

\* Message::NoteExplorerMessage(LoadNotes)
handle_load_notes(self) == Updated(self, <<LoadNotes>>)

\* Message::InitiateFolderRename(folder_path)
handle_initiate_folder_rename(self, folder_path) ==
    IF ~self.state.show_about_info
    THEN Updated([self EXCEPT
                    !.state.show_new_note_input = FALSE,
                    !.state.show_visualizer = FALSE,
                    !.state.show_about_info = FALSE,
                    !.state.show_move_note_input = TRUE,
                    !.state.move_note_current_path = Some(folder_path),
                    !.state.move_note_new_path_input = folder_path,
                    !.state.selected_note_path = NoPath],
                 <<>>)
    ELSE Updated(self, <<>>)

\* Message::AboutButtonClicked
handle_about_button_clicked(self) ==
    IF ~self.state.show_about_info
    THEN Updated([self EXCEPT !.state.show_about_info = TRUE,
                              !.state.show_visualizer = FALSE,
                              !.state.show_new_note_input = FALSE,
                              !.state.show_move_note_input = FALSE],
                 <<>>)
    ELSE Updated([self EXCEPT !.state.show_about_info = FALSE], <<>>)

\* load_notes_metadata on the index file
load_metadata(md) == IF md.exists THEN md.notes ELSE <<>>

\* std::fs::read_to_string of the note's note.md, "" when it fails
read_to_string(fs, note_path) ==
    IF Components(note_path) \in DOMAIN fs THEN fs[Components(note_path)]
    ELSE ""

\* notebook::save_note_content(notebook_path, rel_note_path, content): the
\* directories and the files after it
save_note_content(ds, fs, rel_note_path, content) ==
    LET parent == Components(rel_note_path)
    IN  [dirs |-> create_dir_all(ds, parent),
         files |-> WriteFile(fs, parent, content)]

----------------------------------------------------------------------------
(* The state machine of the editor: the user's clicks, the tasks, which    *)
(* act on the notebook directory when they run, and the messages, handled  *)
(* one at a time in any order.  The notebook holds two notes when the      *)
(* editor starts.                                                          *)

MoveInputs == {Notes, <<" ", "b">>}
EditorActions == {"Edit", "Click"}
LabelInputs == {<<"x">>, <<" ", "y">>}
NewNoteInputs == {<<"a", "/", "c">>, A, <<" ">>}

InitEditor ==
    /\ notes = <<>>
    /\ dirs = {Root, Components(A), Components(B)}
    /\ files = [d \in {Components(A), Components(B)} |->
                    IF d = Components(A) THEN "v1" ELSE "v2"]
    /\ metadata = SavedMetadata(<<NoteMetadata(A), NoteMetadata(B)>>)
    /\ last = NoCall
    /\ faults = 0
    /\ undo_histories = HashMapNew
    /\ undo_indices = HashMapNew
    /\ expanded_folders = HashMapNew
    /\ tree = <<>>
    /\ metadata_json = NoFile
    /\ editor = EditorNew
    /\ pending = SetToBag({LoadNotes})
    /\ clicks = 0

Self == EditorOf(editor, Manager, Explorer)

\* Command::batch
RECURSIVE Batch(_)
Batch(commands) ==
    IF commands = <<>> THEN EmptyBag
    ELSE SetToBag({Head(commands)}) (+) Batch(Tail(commands))

Without(message) == pending (-) SetToBag({message})

\* the editor after a handler, with what is in flight
ApplyUpdate(updated, rest, clicked) ==
    /\ BagCardinality(rest (+) Batch(updated.commands)) <= MaxPending
    /\ editor' = updated.self.state
    /\ undo_histories' = updated.self.undo_manager.undo_histories
    /\ undo_indices' = updated.self.undo_manager.undo_indices
    /\ notes' = updated.self.note_explorer.notes
    /\ expanded_folders' = updated.self.note_explorer.expanded_folders
    /\ tree' = View(updated.self.note_explorer)
    /\ pending' = rest (+) Batch(updated.commands)
    /\ clicks' = clicks + clicked
    /\ UNCHANGED <<dirs, files, metadata, last, faults, indexVars>>

\* the notebook after a task, and the message with its result
ApplyTask(task, ds, fs, md, messages) ==
    /\ dirs' = ds
    /\ files' = fs
    /\ metadata' = md
    /\ pending' = Without(task) (+) Batch(messages)
    /\ UNCHANGED <<notes, last, faults, undoVars, explorerVars, indexVars,
                   editor, clicks>>

\* the explorer, the text, the labels and the buttons for a new note, a
\* move and a delete are shown while no dialog, no about page and no
\* visualizer is
ClickNote ==
    \E note_path \in {A, B, Notes} :
        /\ clicks < MaxClicks
        /\ NothingShown(editor)
        /\ Rendered(Explorer, note_path)
        /\ ApplyUpdate(handle_note_selected(Self, note_path), pending, 1)

ClickMoveNote ==
    /\ clicks < MaxClicks
    /\ NothingShown(editor)
    /\ editor.selected_note_path.tag = "Some"
    /\ ApplyUpdate(handle_move_note(Self), pending, 1)

\* the dialogs are shown while the about page and the visualizer are not,
\* the dialog of a move while that of a new note is not
MoveNoteDialogShown ==
    /\ editor.show_move_note_input
    /\ ~editor.show_about_info
    /\ ~editor.show_visualizer
    /\ ~editor.show_new_note_input

\* the new path is typed into the dialog and submitted
SubmitMoveNote ==
    \E text \in MoveInputs :
        /\ clicks < MaxClicks
        /\ MoveNoteDialogShown
        /\ ApplyUpdate(
            handle_confirm_move_note(
                handle_move_note_input_changed(Self, text)),
            pending, 1)

ClickCancelMoveNote ==
    /\ clicks < MaxClicks
    /\ MoveNoteDialogShown
    /\ ApplyUpdate(handle_cancel_move_note(Self), pending, 1)

ClickDeleteNote ==
    /\ clicks < MaxClicks
    /\ NothingShown(editor)
    /\ editor.selected_note_path.tag = "Some"
    /\ ApplyUpdate(handle_delete_note(Self), pending, 1)

\* Message::NewLabelInputChanged(text), then Message::AddLabel
SubmitLabel ==
    \E text \in LabelInputs :
        /\ clicks < MaxClicks
        /\ NothingShown(editor)
        /\ editor.selected_note_path.tag = "Some"
        /\ ApplyUpdate(
            handle_add_label([Self EXCEPT !.state.new_label_text = text]),
            pending, 1)

\* the text takes actions while a note is selected
ActOnText ==
    \E action \in EditorActions :
        /\ clicks < MaxClicks
        /\ NothingShown(editor)
        /\ editor.selected_note_path.tag = "Some"
        /\ ApplyUpdate(handle_editor_action(Self, action), pending, 1)

\* the remove button of a label of the selected note
ClickRemoveLabel ==
    \E i \in 1..Len(editor.selected_note_labels) :
        /\ clicks < MaxClicks
        /\ NothingShown(editor)
        /\ editor.selected_note_path.tag = "Some"
        /\ ApplyUpdate(
            handle_remove_label(Self, editor.selected_note_labels[i]),
            pending, 1)

\* the button opens the visualizer while nothing else is shown, and closes
\* it
ClickToggleVisualizer ==
    /\ clicks < MaxClicks
    /\ NothingShown([editor EXCEPT !.show_visualizer = FALSE])
    /\ ApplyUpdate(handle_toggle_visualizer(Self), pending, 1)

\* a note of the graph, which holds the notes of the explorer
ClickVisualizerNote ==
    \E i \in 1..Len(notes) :
        /\ clicks < MaxClicks
        /\ editor.show_visualizer
        /\ ~editor.show_about_info
        /\ ApplyUpdate(
            handle_note_selected_in_visualizer(Self, notes[i].rel_path),
            pending, 1)

\* the button opens the about page while nothing else is shown, and closes
\* it
ClickAboutButton ==
    /\ clicks < MaxClicks
    /\ NothingShown(editor) \/ editor.show_about_info
    /\ ApplyUpdate(handle_about_button_clicked(Self), pending, 1)

ClickNewNote ==
    /\ clicks < MaxClicks
    /\ NothingShown(editor)
    /\ ApplyUpdate(handle_new_note(Self), pending, 1)

NewNoteDialogShown ==
    /\ editor.show_new_note_input
    /\ ~editor.show_about_info
    /\ ~editor.show_visualizer

\* the path is typed into the dialog and submitted
SubmitNewNote ==
    \E text \in NewNoteInputs :
        /\ clicks < MaxClicks
        /\ NewNoteDialogShown
        /\ ApplyUpdate(
            handle_create_note(handle_new_note_input_changed(Self, text)),
            pending, 1)

ClickCancelNewNote ==
    /\ clicks < MaxClicks
    /\ NewNoteDialogShown
    /\ ApplyUpdate(handle_cancel_new_note(Self), pending, 1)

\* the rename button of a folder whose folders above it are expanded
ClickRenameFolder ==
    \E folder_path \in all_folders(notes) :
        /\ clicks < MaxClicks
        /\ NothingShown(editor)
        /\ \A k \in 1..(Len(PathIter(folder_path)) - 1) :
            LET above == Join(SubSeq(PathIter(folder_path), 1, k))
            IN  above \in DOMAIN expanded_folders /\ expanded_folders[above]
        /\ ApplyUpdate(handle_initiate_folder_rename(Self, folder_path),
                       pending, 1)

RunLoadNotesMetadata ==
    /\ LoadNotes \in BagToSet(pending)
    /\ ApplyTask(LoadNotes, dirs, files, metadata,
                 <<MessageNotesLoaded(load_metadata(metadata))>>)

RunReadToString ==
    \E task \in BagToSet(pending) :
        /\ task.kind = "read_to_string"
        /\ ApplyTask(task, dirs, files, metadata,
                <<MessageContentChanged(read_to_string(files, task.path),
                                        task.path)>>)

\* Message::MetadataSaved, which changes nothing, is handled with it
RunSaveMetadata ==
    \E task \in BagToSet(pending) :
        /\ task.kind = "save_metadata"
        /\ ApplyTask(task, create_dir_all(dirs, Root), files,
                     SavedMetadata(task.notes), <<>>)

\* Message::NoteContentSaved, which changes nothing, is handled with it
RunSaveNoteContent ==
    \E task \in BagToSet(pending) :
        LET r == save_note_content(dirs, files, task.path, task.content)
        IN  /\ task.kind = "save_note_content"
            /\ ApplyTask(task, r.dirs, r.files, metadata, <<>>)

RunMoveNote ==
    \E task \in BagToSet(pending) :
        LET r == move_note(task.notes, dirs, files, metadata,
                           task.path, task.to, "none")
        IN  /\ task.kind = "move_note"
            /\ ApplyTask(task, r.dirs, r.files, r.metadata,
                         <<MessageNoteMoved(r.out, task.to, task.path)>>)

RunDeleteNote ==
    \E task \in BagToSet(pending) :
        LET r == delete_note(task.notes, dirs, files, metadata,
                             task.path, "none")
        IN  /\ task.kind = "delete_note"
            /\ ApplyTask(task, r.dirs, r.files, r.metadata,
                         <<MessageNoteDeleted(r.out, task.path)>>)

RunCreateNewNote ==
    \E task \in BagToSet(pending) :
        LET r == create_new_note(task.notes, dirs, files, metadata,
                                 task.path, "none")
        IN  /\ task.kind = "create_new_note"
            /\ ApplyTask(task, r.dirs, r.files, r.metadata,
                    <<MessageNoteCreated(r.out,
                        IF r.out = "ok" THEN r.value.rel_path ELSE <<>>)>>)

DeliverNotesLoaded ==
    \E message \in BagToSet(pending) :
        /\ message.kind = "NotesLoaded"
        /\ ApplyUpdate(handle_note_explorer_message(Self, message.notes),
                       Without(message), 0)

DeliverNoteSelected ==
    \E message \in BagToSet(pending) :
        /\ message.kind = "NoteSelected"
        /\ ApplyUpdate(handle_note_selected(Self, message.path),
                       Without(message), 0)

DeliverContentChanged ==
    \E message \in BagToSet(pending) :
        /\ message.kind = "ContentChanged"
        /\ ApplyUpdate(handle_content_changed(Self, message.content),
                       Without(message), 0)

DeliverConfirmDeleteNote ==
    \E message \in BagToSet(pending), confirmed \in BOOLEAN :
        /\ message.kind = "ConfirmDeleteNote"
        /\ ApplyUpdate(handle_confirm_delete_note(Self, confirmed),
                       Without(message), 0)

DeliverNoteDeleted ==
    \E message \in BagToSet(pending) :
        /\ message.kind = "NoteDeleted"
        /\ ApplyUpdate(handle_note_deleted(Self, message),
                       Without(message), 0)

DeliverNoteMoved ==
    \E message \in BagToSet(pending) :
        /\ message.kind = "NoteMoved"
        /\ ApplyUpdate(handle_note_moved(Self, message),
                       Without(message), 0)

DeliverNoteCreated ==
    \E message \in BagToSet(pending) :
        /\ message.kind = "NoteCreated"
        /\ ApplyUpdate(handle_note_created(Self, message),
                       Without(message), 0)

DeliverLoadNotes ==
    /\ MessageLoadNotes \in BagToSet(pending)
    /\ ApplyUpdate(handle_load_notes(Self), Without(MessageLoadNotes), 0)

NextEditor ==
    \/ ClickNote \/ ClickMoveNote \/ SubmitMoveNote \/ ClickCancelMoveNote
    \/ ClickDeleteNote \/ SubmitLabel \/ ClickRemoveLabel \/ ActOnText
    \/ ClickToggleVisualizer \/ ClickVisualizerNote \/ ClickAboutButton
    \/ ClickNewNote \/ SubmitNewNote \/ ClickCancelNewNote
    \/ ClickRenameFolder
    \/ RunLoadNotesMetadata \/ RunReadToString \/ RunSaveMetadata
    \/ RunSaveNoteContent \/ RunMoveNote \/ RunDeleteNote
    \/ RunCreateNewNote
    \/ DeliverNotesLoaded \/ DeliverNoteSelected \/ DeliverContentChanged
    \/ DeliverConfirmDeleteNote \/ DeliverNoteDeleted \/ DeliverNoteMoved
    \/ DeliverNoteCreated \/ DeliverLoadNotes

SpecEditor == InitEditor /\ [][NextEditor]_vars

----------------------------------------------------------------------------
(* Properties *)

\* the note's directory exists and holds note.md
HasBody(ds, fs, rel_path) ==
    Components(rel_path) \in ds /\ Components(rel_path) \in DOMAIN fs

AllHaveBody(ns) == \A i \in 1..Len(ns) : HasBody(dirs, files, ns[i].rel_path)

\* C1: as long as no filesystem step and no index write has failed, every
\* rel_path in the record list and in metadata.json has a directory under
\* the notebook root that contains note.md.
C1_EveryRecordHasBody ==
    faults = 0 => AllHaveBody(notes) /\ AllHaveBody(metadata.notes)

\* C2: when create returns the save error, the record list handed to create
\* does not contain the new record.
C2_FailedSaveDropsRecord ==
    \A rel_path \in CreatePaths :
        LET r == create_new_note(notes, dirs, files, metadata,
                                 rel_path, "save")
        IN  r.out = "save" => ~InMetadata(r.notes, rel_path)

\* what follows the first current_rel_path + "/" in rel_path
AfterPrefix(rel_path, current_rel_path) ==
    SubSeq(rel_path, Len(current_rel_path) + 2, Len(rel_path))

\* C3: a successful folder rename move(cur, new) rewrites every record
\* cur + "/" + s to new + "/" + s, with s exactly the rest of the old path
\* after the first cur + "/", and leaves the records that neither equal cur
\* nor begin with cur + "/" unchanged.
C3_FolderRenameKeepsSuffix ==
    \A cur \in MoveFrom, new \in MoveTo :
        LET r == move_note(notes, dirs, files, metadata, cur, new, "none")
        IN  (r.out = "ok" /\ Components(cur) \notin DOMAIN files) =>
                /\ Len(r.notes) = Len(notes)
                /\ \A i \in 1..Len(notes) :
                    LET old == notes[i].rel_path
                    IN  IF StartsWith(old, cur \o <<Slash>>)
                        THEN r.notes[i].rel_path =
                                new \o <<Slash>> \o AfterPrefix(old, cur)
                        ELSE old # cur => r.notes[i] = notes[i]

\* C4: no two records in the list have the same rel_path.
C4_RelPathsUnique ==
    \A i, j \in 1..Len(notes) :
        i # j => notes[i].rel_path # notes[j].rel_path

\* the call left the record list, the tree and metadata.json as they were
Untouched(r) ==
    /\ r.notes = notes
    /\ r.dirs = dirs
    /\ r.files = files
    /\ r.metadata = metadata
    /\ ~r.wrote

Count(ns, rel_path) ==
    Cardinality({ i \in 1..Len(ns) : ns[i].rel_path = rel_path })

\* C5: after a successful create(rel_path), a second create(rel_path) given
\* the list the first one left fails with a conflict error, adds no record,
\* creates no directory and does not write metadata.json; there is then
\* exactly one record with that rel_path, and its directory.
C5_SecondCreateConflicts ==
    \A rel_path \in CreatePaths :
        LET r1 == create_new_note(notes, dirs, files, metadata,
                                  rel_path, "none")
        IN  r1.out = "ok" =>
                \A fail \in CreateFails :
                    LET r2 == create_new_note(r1.notes, r1.dirs, r1.files,
                                              r1.metadata, rel_path, fail)
                    IN  /\ r2.out = "conflict"
                        /\ ~r2.wrote
                        /\ r2.notes = r1.notes
                        /\ r2.dirs = r1.dirs
                        /\ r2.files = r1.files
                        /\ r2.metadata = r1.metadata
                        /\ Count(r2.notes, rel_path) = 1
                        /\ HasBody(r2.dirs, r2.files, rel_path)

\* a create has just been refused for a conflict, on a path that has one
\* record and one directory
C5_Witness ==
    /\ last = [op |-> "create", out |-> "conflict"]
    /\ \E rel_path \in CreatePaths :
        Count(notes, rel_path) = 1 /\ HasBody(dirs, files, rel_path)

\* C6: if the directory rename fails, move returns the error, no record's
\* rel_path has changed and metadata.json has not been written.
C6_FailedRenameLeavesIndex ==
    \A cur \in MoveFrom, new \in MoveTo, fail \in MoveFails :
        LET r == move_note(notes, dirs, files, metadata, cur, new, fail)
        IN  r.out = "rename" =>
                r.notes = notes /\ r.metadata = metadata /\ ~r.wrote

\* a rename of docs has just failed while a record lies under docs
C6_Witness ==
    /\ last = [op |-> "move", out |-> "rename"]
    /\ Exists(dirs, Components(Docs))
    /\ \E i \in 1..Len(notes) :
        StartsWith(notes[i].rel_path, Docs \o <<Slash>>)

\* C7: when create or move returns a validation error, a conflict error or
\* a not-found error, the directory tree, metadata.json and the record list
\* are exactly as before the call.
C7_RejectionHasNoEffect ==
    /\ \A rel_path \in CreatePaths, fail \in CreateFails :
        LET r == create_new_note(notes, dirs, files, metadata,
                                 rel_path, fail)
        IN  r.out \in {"invalid", "conflict"} => Untouched(r)
    /\ \A cur \in MoveFrom, new \in MoveTo, fail \in MoveFails :
        LET r == move_note(notes, dirs, files, metadata, cur, new, fail)
        IN  r.out \in {"invalid", "conflict", "notfound"} => Untouched(r)

\* a create has just been refused for a conflict with a record whose
\* directory is not on disk
C7_Witness ==
    /\ last = [op |-> "create", out |-> "conflict"]
    /\ \E rel_path \in CreatePaths :
        InMetadata(notes, rel_path) /\ ~Exists(dirs, Components(rel_path))

\* C8: validation in create (on rel_path) and in move (on new_rel_path)
\* returns an error for "", ".", "..", "/x" and "../x", and "a/b/c" passes.
C8_Validation ==
    /\ \A rel_path \in Malformed, fail \in CreateFails :
        create_new_note(notes, dirs, files, metadata,
                        rel_path, fail).out = "invalid"
    /\ \A cur \in MoveFrom, new \in Malformed, fail \in MoveFails :
        move_note(notes, dirs, files, metadata, cur, new, fail).out
            = "invalid"
    /\ create_new_note(notes, dirs, files, metadata, ABC, "none").out
            # "invalid"
    /\ \A cur \in MoveFrom :
        move_note(notes, dirs, files, metadata, cur, ABC, "none").out
            # "invalid"

\* a call has just been refused as invalid, and a/b/c has been created
C8_Witness ==
    /\ last.out = "invalid"
    /\ InMetadata(notes, ABC)
    /\ HasBody(dirs, files, ABC)

\* C9: delete of a rel_path that has no record but whose directory exists
\* removes the directory, returns Ok, leaves the record list unchanged and
\* does not write metadata.json.
C9_DeleteWithoutRecord ==
    \A rel_path \in DeletePaths :
        (~InMetadata(notes, rel_path) /\ Exists(dirs, Components(rel_path)))
        => LET r == delete_note(notes, dirs, files, metadata,
                                rel_path, "none")
           IN  /\ r.out = "ok"
               /\ ~Exists(r.dirs, Components(rel_path))
               /\ r.notes = notes
               /\ ~r.wrote
               /\ r.metadata = MetadataIn(metadata, r.dirs)

\* the folder docs has just been deleted: it had no record of its own, and
\* docs/a is still in the list and in metadata.json
C9_Witness ==
    /\ last = [op |-> "delete", out |-> "ok"]
    /\ ~Exists(dirs, Components(Docs))
    /\ ~InMetadata(notes, Docs)
    /\ InMetadata(notes, DocsA)
    /\ metadata = SavedMetadata(notes)

\* C10: delete of a rel_path that has a record but no directory on disk
\* removes the record, persists the updated list and returns Ok.
C10_DeleteWithoutDirectory ==
    \A rel_path \in DeletePaths :
        (InMetadata(notes, rel_path) /\ ~Exists(dirs, Components(rel_path)))
        => LET r == delete_note(notes, dirs, files, metadata,
                                rel_path, "none")
           IN  /\ r.out = "ok"
               /\ r.notes = RemoveAt(notes, Position(notes, rel_path))
               /\ r.wrote
               /\ r.metadata = SavedMetadata(r.notes)

\* the state a move of a note starts from: the present one, or the present
\* one after a note was created in the directory of the note cur
BeforeMove(cur) ==
    { Ret(notes, dirs, files, metadata, "ok", FALSE),
      create_new_note(notes, dirs, files, metadata,
                      cur \o <<Slash, "b">>, "none") }

\* C11: a successful move of a single note (its directory holds note.md)
\* from cur to new rewrites the rel_path of exactly the one record equal to
\* cur and changes no other record.
C11_NoteMoveRewritesOneRecord ==
    \A cur \in {DocsA, ABC}, new \in {Notes} :
        \A s \in BeforeMove(cur) :
            LET r == move_note(s.notes, s.dirs, s.files, s.metadata,
                               cur, new, "none")
            IN  (/\ s.out = "ok"
                 /\ Components(cur) \in DOMAIN s.files
                 /\ Count(s.notes, cur) = 1
                 /\ r.out = "ok") =>
                    /\ Len(r.notes) = Len(s.notes)
                    /\ \A i \in 1..Len(s.notes) :
                        IF s.notes[i].rel_path = cur
                        THEN r.notes[i] =
                                [s.notes[i] EXCEPT !.rel_path = new]
                        ELSE r.notes[i] = s.notes[i]

\* the key has no snapshot
NoHistory(um, k) ==
    k \notin DOMAIN um.undo_histories \/ um.undo_histories[k] = <<>>

\* the manager after record(k, v1), record(k, v2)
TwoRecords(k, v1, v2) ==
    add_to_history(add_to_history(Manager, k, v1), k, v2)

\* C12 (as stated): on a key with no earlier history, after record(k, v1)
\* followed by record(k, v2), the first undo(k) returns v1 and the second
\* undo(k) returns nothing.
C12_FirstUndoReturnsV1 ==
    \A k \in UndoKeys, v1 \in Contents, v2 \in Contents :
        NoHistory(Manager, k) =>
            LET p1 == get_previous_content(TwoRecords(k, v1, v2), k)
                p2 == get_previous_content(p1.um, k)
            IN  p1.result = Some(v1) /\ p2.result = None

\* C12 (amended): on a key with no earlier history, after record(k, v1)
\* followed by record(k, v2), the first undo(k) returns v2, the second
\* returns v1 and the third returns nothing.
C12_UndoReturnsNewestFirst ==
    \A k \in UndoKeys, v1 \in Contents, v2 \in Contents :
        NoHistory(Manager, k) =>
            LET p1 == get_previous_content(TwoRecords(k, v1, v2), k)
                p2 == get_previous_content(p1.um, k)
                p3 == get_previous_content(p2.um, k)
            IN  /\ p1.result = Some(v2)
                /\ p2.result = Some(v1)
                /\ p3.result = None

\* v1 and v2 were recorded on a key and undone, and one more undo has just
\* returned nothing
C12_Witness ==
    /\ last = [op |-> "undo", out |-> "None"]
    /\ \E k \in UndoKeys :
        /\ k \in DOMAIN undo_histories
        /\ undo_histories[k] = <<"v1", "v2">>
        /\ undo_indices[k] = 0

\* what undo(k) returns, call after call, until it returns nothing
RECURSIVE UndoAll(_, _)
UndoAll(um, k) ==
    LET p == get_previous_content(um, k)
    IN  IF p.result.tag = "Some"
        THEN <<p.result.value>> \o UndoAll(p.um, k)
        ELSE <<>>

Reverse(seq) == [i \in 1..Len(seq) |-> seq[Len(seq) + 1 - i]]

\* C13: record(k, c) issued when the cursor is below the history length
\* discards every snapshot at an index >= cursor, appends c and sets the
\* cursor to old cursor + 1; the undo calls that follow return c, then the
\* snapshots below the old cursor from the newest to the oldest, then
\* nothing: no discarded snapshot comes back.
C13_RecordDiscardsRedoBranch ==
    \A k \in UndoKeys, c \in Contents :
        (/\ k \in DOMAIN undo_indices
         /\ k \in DOMAIN undo_histories
         /\ undo_indices[k] < Len(undo_histories[k])) =>
            LET cursor == undo_indices[k]
                kept   == SubSeq(undo_histories[k], 1, cursor)
                um     == add_to_history(Manager, k, c)
            IN  /\ um.undo_histories[k] = Append(kept, c)
                /\ um.undo_indices[k] = cursor + 1
                /\ UndoAll(um, k) = Reverse(Append(kept, c))

\* a record has just been made below the end of a history: the history now
\* ends with the recorded content, after a snapshot that was kept
C13_Witness ==
    /\ last = [op |-> "record", out |-> "truncated"]
    /\ \E k \in UndoKeys :
        /\ k \in DOMAIN undo_histories
        /\ Len(undo_histories[k]) = 2
        /\ undo_indices[k] = 2

\* C14: after any sequence of initialize, seed_initial_content, record,
\* undo, rename and remove calls, a key has a cursor exactly when it has a
\* snapshot sequence, 0 <= cursor <= number of snapshots, and undo does not
\* read outside the snapshot sequence.
C14_CursorWithinHistory ==
    /\ DOMAIN undo_indices = DOMAIN undo_histories
    /\ \A k \in DOMAIN undo_indices :
        undo_indices[k] >= 0 /\ undo_indices[k] <= Len(undo_histories[k])
    /\ \A k \in UndoKeys :
        get_previous_content(Manager, k).result # OutOfBounds

\* an entry whose cursor is below the end of its history has just been
\* renamed
C14_Witness ==
    /\ last = [op |-> "rename", out |-> "moved"]
    /\ \E k \in UndoKeys :
        /\ k \in DOMAIN undo_histories
        /\ k \in DOMAIN undo_indices
        /\ undo_indices[k] > 0
        /\ undo_indices[k] < Len(undo_histories[k])

\* every node of a tree, with the names of the folders above it
RECURSIVE Entries(_, _)
Entries(nodes, above) ==
    IF nodes = <<>> THEN <<>>
    ELSE LET node == Head(nodes)
         IN  <<[kind |-> node.kind, name |-> node.name, path |-> node.path,
                above |-> above]>>
             \o (IF node.kind = "Folder"
                 THEN Entries(node.children, Append(above, node.name))
                 ELSE <<>>)
             \o Entries(Tail(nodes), above)

\* in a list and in the lists below it, the folders come first and each
\* group is in ascending name order
RECURSIVE FoldersFirstByName(_)
FoldersFirstByName(nodes) ==
    /\ \A i, j \in 1..Len(nodes) :
        i < j =>
            /\ ~(nodes[i].kind = "NoteDir" /\ nodes[j].kind = "Folder")
            /\ nodes[i].kind = nodes[j].kind =>
                    ~StrLess(nodes[j].name, nodes[i].name)
    /\ \A i \in 1..Len(nodes) :
        nodes[i].kind = "Folder" => FoldersFirstByName(nodes[i].children)

\* the paths of the folders above the notes of a list
AncestorPaths(ns) ==
    UNION { { Join(SubSeq(PathIter(ns[i].rel_path), 1, k)) :
                k \in 1..(Len(PathIter(ns[i].rel_path)) - 1) } :
            i \in 1..Len(ns) }

\* C20: for records with distinct rel_paths the tree has exactly one note
\* leaf per record (path = rel_path, name = last segment) under the chain of
\* folders named by its preceding segments, exactly one folder node per
\* distinct ancestor path (path = its segments joined by "/"), and in every
\* child list, the root list included, all folders come before all leaves
\* with each group in ascending name order.
C20_TreeMatchesRecords ==
    Distinct(notes) =>
        LET entries == Entries(tree, <<>>)
            leaves  == SelectSeq(entries, LAMBDA e : e.kind = "NoteDir")
            folders == SelectSeq(entries, LAMBDA e : e.kind = "Folder")
        IN  /\ Len(leaves) = Len(notes)
            /\ \A i \in 1..Len(notes) :
                LET segments == PathIter(notes[i].rel_path)
                IN  \E j \in 1..Len(leaves) :
                        /\ leaves[j].path = notes[i].rel_path
                        /\ leaves[j].name = segments[Len(segments)]
                        /\ leaves[j].above =
                                SubSeq(segments, 1, Len(segments) - 1)
            /\ \A j \in 1..Len(folders) :
                folders[j].path =
                    Join(Append(folders[j].above, folders[j].name))
            /\ { folders[j].path : j \in 1..Len(folders) }
                    = AncestorPaths(notes)
            /\ Len(folders) = Cardinality(AncestorPaths(notes))
            /\ FoldersFirstByName(tree)

\* the list [a/x, a/y, b] is shown as the folder a holding the leaves x and
\* y, followed by the leaf b
C20_Witness ==
    /\ Len(notes) = 3
    /\ notes[1].rel_path = AX /\ notes[2].rel_path = AY
    /\ notes[3].rel_path = B
    /\ Len(tree) = 2
    /\ tree[1].kind = "Folder" /\ tree[1].name = <<"a">>
    /\ Len(tree[1].children) = 2
    /\ tree[1].children[1].kind = "NoteDir"
    /\ tree[1].children[1].name = <<"x">>
    /\ tree[1].children[2].kind = "NoteDir"
    /\ tree[1].children[2].name = <<"y">>
    /\ tree[2].kind = "NoteDir" /\ tree[2].name = <<"b">>

----------------------------------------------------------------------------
\* C19: load after a successful save returns the records that were saved,
\* each with the same rel_path and the same labels, and nothing else: no
\* record of an earlier save that the latest saved list does not hold.
C19_LoadReturnsSaved ==
    (last.op = "save" /\ last.out = "ok") =>
        LET loaded == load_notes_metadata(metadata_json)
        IN  /\ metadata_json.exists
            /\ Len(loaded) = Len(notes)
            /\ \A i \in 1..Len(notes) :
                /\ loaded[i].rel_path = notes[i].rel_path
                /\ loaded[i].labels = notes[i].labels
            /\ \A i \in 1..Len(loaded) : \E j \in 1..Len(notes) :
                loaded[i] = notes[j]

\* a load has returned one record whose label holds a backslash
C19_Witness ==
    /\ last.op = "load"
    /\ Len(notes) = 1
    /\ notes[1].labels = <<Escaped>>
    /\ metadata_json.exists

----------------------------------------------------------------------------
\* the NoteMoved(Ok) messages in flight that end the move of a single note
\* with an undo entry
MovedNotes ==
    { m \in BagToSet(pending) :
        /\ m.kind = "NoteMoved"
        /\ m.content = "ok"
        /\ m.path \in DOMAIN undo_histories
        /\ m.path \in DOMAIN undo_indices }

\* C15: when NoteMoved(Ok(new)) ends the move of a single note from old to
\* new, the undo entry stored under old is afterwards stored under new with
\* the same snapshots and the same cursor, and no entry remains under old.
C15_MoveRenamesUndoEntry ==
    \A m \in MovedNotes :
        LET um == handle_note_moved(Self, m).self.undo_manager
        IN  /\ m.to \in DOMAIN um.undo_histories
            /\ m.to \in DOMAIN um.undo_indices
            /\ um.undo_histories[m.to] = undo_histories[m.path]
            /\ um.undo_indices[m.to] = undo_indices[m.path]
            /\ m.path \notin DOMAIN um.undo_histories
            /\ m.path \notin DOMAIN um.undo_indices

\* C16: when NoteDeleted(Ok) ends the delete of the note k that was
\* selected, the undo history afterwards holds no snapshots and no cursor
\* for k, and the entry of every other note is unchanged.
C16_DeleteRemovesUndoEntry ==
    \A m \in BagToSet(pending) :
        (m.kind = "NoteDeleted" /\ m.content = "ok") =>
            LET um == handle_note_deleted(Self, m).self.undo_manager
            IN  /\ m.path \notin DOMAIN um.undo_histories
                /\ m.path \notin DOMAIN um.undo_indices
                /\ \A k \in (DOMAIN undo_histories) \ {m.path} :
                    /\ k \in DOMAIN um.undo_histories
                    /\ um.undo_histories[k] = undo_histories[k]
                /\ \A k \in (DOMAIN undo_indices) \ {m.path} :
                    /\ k \in DOMAIN um.undo_indices
                    /\ um.undo_indices[k] = undo_indices[k]

\* C17: the content of a note A that arrives while another note B is
\* selected is discarded: it is not placed in the edit buffer and it is
\* neither seeded nor recorded into the undo history, whichever of the two
\* loads ends first.
C17_StaleContentDiscarded ==
    \A m \in BagToSet(pending) :
        (/\ m.kind = "ContentChanged"
         /\ editor.selected_note_path.tag = "Some"
         /\ editor.selected_note_path.value # m.path) =>
            LET u == handle_content_changed(Self, m.content).self
            IN  /\ u.state.markdown_text = editor.markdown_text
                /\ u.undo_manager = Manager

\* the records of a list, each with how often it is there
RECURSIVE Records(_)
Records(ns) ==
    IF ns = <<>> THEN EmptyBag
    ELSE SetToBag({Head(ns)}) (+) Records(Tail(ns))

\* C18: whenever no task and no message is in flight (no save fails in the
\* editor's state machine), the explorer's records, rel_path and labels of
\* each, are those of metadata.json.
C18_ExplorerEqualsIndex ==
    pending = EmptyBag => Records(notes) = Records(load_metadata(metadata))

----------------------------------------------------------------------------
\* the folders of a tree, each with its path and its flag
RECURSIVE FolderFlags(_)
FolderFlags(nodes) ==
    UNION { IF nodes[j].kind = "Folder"
            THEN { <<nodes[j].path, nodes[j].is_expanded>> }
                 \cup FolderFlags(nodes[j].children)
            ELSE {} : j \in 1..Len(nodes) }

\* C21: when the note list is reloaded, every folder path that existed
\* before the reload and still exists keeps its expanded flag, every folder
\* path seen for the first time is collapsed, and the tree built afterwards
\* carries exactly those flags.
C21_ReloadKeepsFolderFlags ==
    \A loaded \in LoadedLists :
        LET explorer == NotesLoaded(Explorer, loaded)
            flag(f) == IF f \in all_folders(notes) THEN expanded_folders[f]
                       ELSE FALSE
        IN  /\ \A f \in all_folders(loaded) :
                /\ f \in DOMAIN explorer.expanded_folders
                /\ explorer.expanded_folders[f] = flag(f)
            /\ FolderFlags(View(explorer))
                    = { <<f, flag(f)>> : f \in all_folders(loaded) }

\* folder a was expanded, a reload has brought the folder b beside it: a is
\* still expanded and b is collapsed, in the explorer and in the tree
C21_Witness ==
    /\ last.op = "NotesLoaded"
    /\ Len(notes) = 2
    /\ notes[1].rel_path = AX /\ notes[2].rel_path = BX
    /\ expanded_folders[A] /\ ~expanded_folders[B]
    /\ Len(tree) = 2
    /\ tree[1].path = A /\ tree[1].is_expanded
    /\ tree[2].path = B /\ ~tree[2].is_expanded

----------------------------------------------------------------------------
\* C22: delete never removes the notebook root directory or metadata.json:
\* a delete whose rel_path is empty or "." is rejected with an error and
\* removes nothing.
C22_DeleteRejectsRootPath ==
    \A rel_path \in {Empty, OneDot}, fail \in DeleteFails :
        LET r == delete_note(notes, dirs, files, metadata, rel_path, fail)
        IN  /\ r.out # "ok"
            /\ r.notes = notes
            /\ r.dirs = dirs
            /\ r.files = files
            /\ r.metadata = metadata

----------------------------------------------------------------------------
\* C26: if the index write fails after the filesystem step of delete or
\* move has succeeded, the operation returns an error and the filesystem
\* change is not rolled back: after delete the directory stays removed while
\* metadata.json is as it was, still listing the record; after move the
\* directory stays at the new path while metadata.json still holds the old
\* rel_paths.
C26_FailedSaveKeepsFilesystemChange ==
    /\ \A rel_path \in DeletePaths :
        LET r == delete_note(notes, dirs, files, metadata, rel_path, "save")
        IN  r.out = "save" =>
                /\ ~Exists(r.dirs, Components(rel_path))
                /\ Components(rel_path) \notin DOMAIN r.files
                /\ r.metadata = metadata
                /\ ~r.wrote
    /\ \A cur \in MoveFrom, new \in MoveTo :
        LET r == move_note(notes, dirs, files, metadata, cur, new, "save")
        IN  r.out = "save" =>
                /\ ~Exists(r.dirs, Components(cur))
                /\ Exists(r.dirs, Components(new))
                /\ r.files = RenameFiles(files, Components(cur),
                                         Components(new))
                /\ r.metadata = metadata
                /\ ~r.wrote

\* the index write of a move of a/b/c to notes has just failed: the note
\* lies at notes with its body, and metadata.json still lists a/b/c
C26_Witness ==
    /\ last = [op |-> "move", out |-> "save"]
    /\ ~Exists(dirs, Components(ABC))
    /\ HasBody(dirs, files, Notes)
    /\ InMetadata(metadata.notes, ABC)
    /\ ~InMetadata(metadata.notes, Notes)

----------------------------------------------------------------------------
\* C27: if the recursive removal of the note's directory fails, delete
\* returns an error and metadata.json is not rewritten, so it still lists
\* the record.
C27_FailedRemovalLeavesIndex ==
    \A rel_path \in DeletePaths, fail \in DeleteFails :
        LET r == delete_note(notes, dirs, files, metadata, rel_path, fail)
        IN  (Exists(dirs, Components(rel_path)) /\ fail = "rmdir") =>
                /\ r.out = "rmdir"
                /\ ~r.wrote
                /\ r.metadata = metadata
                /\ InMetadata(metadata.notes, rel_path)
                    => InMetadata(r.metadata.notes, rel_path)

\* the removal of a/b/c has just failed: the directory is there and
\* metadata.json lists a/b/c
C27_Witness ==
    /\ last = [op |-> "delete", out |-> "rmdir"]
    /\ HasBody(dirs, files, ABC)
    /\ metadata.exists
    /\ InMetadata(metadata.notes, ABC)

----------------------------------------------------------------------------
\* C28: a successful create(rel_path) appends exactly one record (rel_path,
\* no labels) at the end of the list, leaves every existing record unchanged
\* and in place, creates the note's directory with an empty body file,
\* writes the new list to metadata.json, and returns that record.
C28_CreateAppendsOneRecord ==
    \A rel_path \in CreatePaths, fail \in CreateFails :
        LET r == create_new_note(notes, dirs, files, metadata,
                                 rel_path, fail)
            record == [rel_path |-> rel_path, labels |-> <<>>]
        IN  r.out = "ok" =>
                /\ Len(r.notes) = Len(notes) + 1
                /\ r.notes[Len(r.notes)] = record
                /\ \A i \in 1..Len(notes) : r.notes[i] = notes[i]
                /\ Exists(r.dirs, Components(rel_path))
                /\ dirs \subseteq r.dirs
                /\ Components(rel_path) \in DOMAIN r.files
                /\ r.files[Components(rel_path)] = ""
                /\ \A d \in DOMAIN files : d \in DOMAIN r.files
                                           /\ r.files[d] = files[d]
                /\ r.wrote
                /\ r.metadata = [exists |-> TRUE, notes |-> r.notes]
                /\ r.value = record

\* docs/a has just been created after a/b/c: it is the second record, both
\* notes have their body, and metadata.json holds the two records
C28_Witness ==
    /\ last = [op |-> "create", out |-> "ok"]
    /\ Len(notes) = 2
    /\ notes[1] = [rel_path |-> ABC, labels |-> <<>>]
    /\ notes[2] = [rel_path |-> DocsA, labels |-> <<>>]
    /\ HasBody(dirs, files, ABC) /\ HasBody(dirs, files, DocsA)
    /\ files[Components(DocsA)] = ""
    /\ metadata = [exists |-> TRUE, notes |-> notes]

----------------------------------------------------------------------------
\* C29: if writing the index fails in create, the note directory that
\* create just made is removed again: when create returns the save error, no
\* directory and no body file exist at rel_path under the notebook root.
C29_FailedSaveRemovesNoteDirectory ==
    \A rel_path \in CreatePaths :
        LET r == create_new_note(notes, dirs, files, metadata,
                                 rel_path, "save")
        IN  r.out = "save" =>
                /\ ~Exists(r.dirs, Components(rel_path))
                /\ Components(rel_path) \notin DOMAIN r.files

\* the index write of a create has just failed: the record it pushed is in
\* the list, not in metadata.json, and has no directory
C29_Witness ==
    /\ last = [op |-> "create", out |-> "save"]
    /\ Len(notes) > 0
    /\ LET rel_path == notes[Len(notes)].rel_path
       IN  /\ ~InMetadata(metadata.notes, rel_path)
           /\ ~Exists(dirs, Components(rel_path))
           /\ Components(rel_path) \notin DOMAIN files

----------------------------------------------------------------------------
\* C30: a create that returns an error at any step leaves the set of
\* directories under the notebook root exactly as before the call; for a
\* nested rel_path, the parent directories that create made are not left
\* behind when the index write fails.
C30_FailedCreateLeavesNoDirectory ==
    \A rel_path \in CreatePaths, fail \in CreateFails :
        LET r == create_new_note(notes, dirs, files, metadata,
                                 rel_path, fail)
        IN  r.out # "ok" => r.dirs = dirs

----------------------------------------------------------------------------
\* C25: a failed move or delete is reported once: handling NoteMoved(Err)
\* or NoteDeleted(Err) emits no further NoteMoved or NoteDeleted message.
C25_FailureReportedOnce ==
    \A message \in BagToSet(pending) :
        /\ (message.kind = "NoteMoved" /\ message.content # "ok") =>
            LET commands == handle_note_moved(Self, message).commands
            IN  \A i \in 1..Len(commands) : commands[i].kind # "NoteMoved"
        /\ (message.kind = "NoteDeleted" /\ message.content # "ok") =>
            LET commands == handle_note_deleted(Self, message).commands
            IN  \A i \in 1..Len(commands) : commands[i].kind # "NoteDeleted"

----------------------------------------------------------------------------
\* the texts that come from a text by typing into it
RECURSIVE Typed(_, _)
Typed(content, n) ==
    IF n = 0 THEN {content}
    ELSE {content} \cup Typed(Perform(content, "Edit"), n - 1)

\* the texts of the other note of the two the notebook starts with
TextsOfOther(note_path) ==
    IF note_path = A THEN Typed("v2", MaxClicks) ELSE Typed("v1", MaxClicks)

\* C23: a note's body file is never written with text taken from another
\* note's edit buffer: while the notes a and b are where they were, no
\* content save in flight for one of them carries the text of the other,
\* and neither body file holds the text of the other.
C23_SaveCarriesOwnText ==
    (Exists(dirs, Components(A)) /\ Exists(dirs, Components(B))) =>
        \A note_path \in {A, B} :
            /\ \A task \in BagToSet(pending) :
                (task.kind = "save_note_content" /\ task.path = note_path)
                    => task.content \notin TextsOfOther(note_path)
            /\ read_to_string(files, note_path) \notin TextsOfOther(note_path)

----------------------------------------------------------------------------
\* C24: once a delete of a note, or a move of it to another path, has
\* succeeded, a content save for the note that is still in flight does not
\* recreate the note's directory at the old path.
C24_SaveDoesNotRecreate ==
    \A message \in BagToSet(pending), task \in BagToSet(pending) :
        (/\ message.kind \in {"NoteDeleted", "NoteMoved"}
         /\ message.content = "ok"
         /\ task.kind = "save_note_content"
         /\ task.path = message.path
         /\ ~Exists(dirs, Components(message.path)))
        => ~Exists(save_note_content(dirs, files, task.path,
                                     task.content).dirs,
                   Components(message.path))

----------------------------------------------------------------------------
\* paths with two dots inside a segment, none of whose segments is ".."
DottedNames ==
    { <<"a", ".", ".", "b">>,
      <<"n", "o", "t", "e", "s", "/", "v", ".", ".", "v">> }

\* C31: path validation rejects a path for traversal only when one of its
\* "/"-separated segments equals "..": a path such as "a..b" or
\* "notes/v..v" passes validation in create and in move.
C31_DotsInsideSegmentPass ==
    \A rel_path \in DottedNames :
        /\ \A seg \in { Split(rel_path)[i] : i \in 1..Len(Split(rel_path)) } :
                seg # <<Dot, Dot>>
        /\ create_new_note(notes, dirs, files, metadata,
                           rel_path, "none").out # "invalid"
        /\ \A cur \in MoveFrom :
            move_note(notes, dirs, files, metadata,
                      cur, rel_path, "none").out # "invalid"

----------------------------------------------------------------------------
\* a record equals rel_path or lies under it
RecordAtOrUnder(ns, rel_path) ==
    \E i \in 1..Len(ns) :
        \/ ns[i].rel_path = rel_path
        \/ StartsWith(ns[i].rel_path, rel_path \o <<Slash>>)

\* C32: move writes metadata.json only if it rewrote at least one record: a
\* successful move of a directory that no record equals or lies under
\* returns Ok(new_rel_path) and leaves both the record list and
\* metadata.json unchanged.
C32_MoveWithoutRecordWritesNothing ==
    \A cur \in MoveFrom, new \in MoveTo, fail \in MoveFails :
        LET r == move_note(notes, dirs, files, metadata, cur, new, fail)
        IN  r.out = "ok" =>
                /\ r.value = new
                /\ r.wrote => \E i \in 1..Len(notes) : r.notes[i] # notes[i]
                /\ ~RecordAtOrUnder(notes, cur) =>
                        /\ r.notes = notes
                        /\ r.metadata = metadata
                        /\ ~r.wrote

\* the folder docs, which no record lay under, has just been moved to
\* notes: no record names notes, in the list or in metadata.json
C32_Witness ==
    /\ last = [op |-> "move", out |-> "ok"]
    /\ Exists(dirs, Components(Notes))
    /\ ~Exists(dirs, Components(Docs))
    /\ ~RecordAtOrUnder(notes, Notes)
    /\ ~RecordAtOrUnder(metadata.notes, Notes)
    /\ ~RecordAtOrUnder(notes, Docs)

----------------------------------------------------------------------------
\* C33: undo(k) with cursor c > 0 sets the cursor to c - 1 and returns the
\* snapshot stored at index c - 1 (counting from 0) without changing the
\* snapshot sequence; with cursor 0, or with no entry for k, it returns
\* nothing and changes neither snapshots nor cursor.
C33_UndoStepsCursorBack ==
    \A k \in UndoKeys \cup {ABC} :
        LET p == get_previous_content(Manager, k)
        IN  IF k \in DOMAIN undo_indices /\ undo_indices[k] > 0
            THEN LET c == undo_indices[k]
                 IN  /\ k \in DOMAIN undo_histories
                     /\ p.result = Some(undo_histories[k][(c - 1) + 1])
                     /\ p.um.undo_histories = undo_histories
                     /\ DOMAIN p.um.undo_indices = DOMAIN undo_indices
                     /\ p.um.undo_indices[k] = c - 1
                     /\ \A other \in DOMAIN undo_indices \ {k} :
                            p.um.undo_indices[other] = undo_indices[other]
            ELSE /\ p.result = None
                 /\ p.um = Manager

\* an undo on a key with the snapshots v1, v2 and the cursor at 2 has just
\* returned v2 and left the cursor at 1
C33_Witness ==
    /\ last = [op |-> "undo", out |-> "v2"]
    /\ \E k \in UndoKeys :
        /\ k \in DOMAIN undo_histories
        /\ undo_histories[k] = <<"v1", "v2">>
        /\ undo_indices[k] = 1

----------------------------------------------------------------------------
\* the entry of k is (snapshots, cursor) and every other entry is as in the
\* present state
OnlyEntryChanged(um, k, snapshots, cursor) ==
    /\ DOMAIN um.undo_histories = DOMAIN undo_histories \cup {k}
    /\ DOMAIN um.undo_indices = DOMAIN undo_indices \cup {k}
    /\ um.undo_histories[k] = snapshots
    /\ um.undo_indices[k] = cursor
    /\ \A other \in DOMAIN undo_histories \ {k} :
            um.undo_histories[other] = undo_histories[other]
    /\ \A other \in DOMAIN undo_indices \ {k} :
            um.undo_indices[other] = undo_indices[other]

\* C34: seed_initial_content(k, content) does the following and nothing
\* else: on an entry with no snapshots, non-empty content becomes the single
\* snapshot with cursor 1 and empty content leaves no snapshot with cursor
\* 0; on an entry that has snapshots, if content differs from the snapshot
\* the cursor points at (the one an undo would return), content is pushed as
\* a new last snapshot and the cursor is set to the new length, otherwise
\* snapshots and cursor are unchanged.
C34_SeedInitialContent ==
    \A k \in UndoKeys, content \in Contents :
        LET um == handle_initial_content(Manager, k, content)
            snapshots == IF k \in DOMAIN undo_histories
                         THEN undo_histories[k] ELSE <<>>
            cursor == IF k \in DOMAIN undo_indices
                      THEN undo_indices[k] ELSE 0
        IN  IF snapshots = <<>>
            THEN IF content # ""
                 THEN OnlyEntryChanged(um, k, <<content>>, 1)
                 ELSE OnlyEntryChanged(um, k, <<>>, 0)
            ELSE IF cursor > 0 /\ snapshots[cursor] # content
            THEN OnlyEntryChanged(um, k, snapshots \o <<content>>,
                                  Len(snapshots) + 1)
            ELSE um = Manager

\* a key that held v1 alone was seeded with v2: it holds v1, v2 and the
\* cursor is 2
C34_Witness ==
    /\ last = [op |-> "seed", out |-> "ok"]
    /\ \E k \in UndoKeys :
        /\ k \in DOMAIN undo_histories
        /\ undo_histories[k] = <<"v1", "v2">>
        /\ undo_indices[k] = 2

----------------------------------------------------------------------------
\* C35: rename(old, new) on the undo history, for two different keys, moves
\* old's snapshots and cursor unchanged to key new and removes key old; it
\* changes no entry of any third key, and when old has no entry it changes
\* nothing, the entry of new included.
C35_RenameMovesEntry ==
    \A old \in UndoKeys \cup {ABC}, new \in UndoKeys \cup {ABC} :
        LET um == handle_path_change(Manager, old, new)
        IN  old # new =>
            IF old \in DOMAIN undo_histories
            THEN /\ DOMAIN um.undo_histories
                        = (DOMAIN undo_histories \ {old}) \cup {new}
                 /\ DOMAIN um.undo_indices
                        = (DOMAIN undo_indices \ {old}) \cup {new}
                 /\ um.undo_histories[new] = undo_histories[old]
                 /\ um.undo_indices[new] = undo_indices[old]
                 /\ \A third \in DOMAIN undo_histories \ {old, new} :
                        /\ um.undo_histories[third] = undo_histories[third]
                        /\ um.undo_indices[third] = undo_indices[third]
            ELSE um = Manager

\* docs/a, with the snapshots v1, v2 and the cursor at 1, has just been
\* renamed to notes
C35_Witness ==
    /\ last = [op |-> "rename", out |-> "moved"]
    /\ DocsA \notin DOMAIN undo_histories
    /\ DocsA \notin DOMAIN undo_indices
    /\ Notes \in DOMAIN undo_histories
    /\ undo_histories[Notes] = <<"v1", "v2">>
    /\ undo_indices[Notes] = 1

----------------------------------------------------------------------------
\* C38: after each reload the expand-state map holds exactly the folder
\* paths implied by the current records, plus the root entry "": the flag
\* of a folder path that no longer exists is dropped, so a folder that
\* disappears in one reload and reappears in a later one is collapsed,
\* whatever its flag was.
C38_ReloadDropsGoneFolders ==
    /\ last.op = "NotesLoaded" =>
            DOMAIN expanded_folders = all_folders(notes) \cup {<<>>}
    /\ \A loaded \in LoadedLists :
        DOMAIN NotesLoaded(Explorer, loaded).expanded_folders
            = all_folders(loaded) \cup {<<>>}
    \* the later reload, from whatever state the earlier ones left
    /\ \A loaded \in ListsOf(TreePaths, 1) :
        \A f \in all_folders(loaded) \ DOMAIN expanded_folders :
            ~NotesLoaded(Explorer, loaded).expanded_folders[f]

\* a reload has taken the folder a away while b, expanded, stays: the map
\* holds the root and b only
C38_Witness ==
    /\ last.op = "NotesLoaded"
    /\ Len(notes) = 1 /\ notes[1].rel_path = BX
    /\ DOMAIN expanded_folders = {<<>>, B}
    /\ expanded_folders[B]
    /\ Len(tree) = 1 /\ tree[1].path = B /\ tree[1].is_expanded

----------------------------------------------------------------------------
\* C39: ToggleFolder(p) flips the expanded flag of p only and leaves every
\* other folder's flag and the note list unchanged; applying it twice
\* restores the map; for a path that is not in the map it changes nothing
\* and adds no entry.
C39_ToggleFlipsOneFlag ==
    \A p \in DOMAIN expanded_folders \cup {A, B, AX} :
        LET once == ToggleFolder(Explorer, p)
            twice == ToggleFolder(once, p)
        IN  /\ once.notes = notes
            /\ DOMAIN once.expanded_folders = DOMAIN expanded_folders
            /\ \A f \in DOMAIN expanded_folders \ {p} :
                    once.expanded_folders[f] = expanded_folders[f]
            /\ p \in DOMAIN expanded_folders =>
                    once.expanded_folders[p] = ~expanded_folders[p]
            /\ twice.expanded_folders = expanded_folders
            /\ twice.notes = notes

\* the folder a has just been expanded beside the collapsed folder b
C39_Witness ==
    /\ last.op = "ToggleFolder"
    /\ Len(notes) = 2
    /\ notes[1].rel_path = AX /\ notes[2].rel_path = BX
    /\ expanded_folders[A] /\ ~expanded_folders[B]
    /\ tree[1].is_expanded /\ ~tree[2].is_expanded

\* the flags of the editor that are set
Shown(state) ==
    {flag \in {"show_visualizer", "show_new_note_input",
               "show_move_note_input", "show_about_info"} : state[flag]}

\* the editor after each message whose handler writes one of the flags
AfterFlagMessage(self) ==
    {handle_toggle_visualizer(self).self, handle_new_note(self).self,
     handle_create_note(self).self, handle_cancel_new_note(self).self,
     handle_move_note(self).self, handle_confirm_move_note(self).self,
     handle_cancel_move_note(self).self, handle_delete_note(self).self,
     handle_about_button_clicked(self).self}
    \cup {handle_initiate_folder_rename(self, folder_path).self :
            folder_path \in {A, Docs}}
    \cup {handle_note_selected(self, note_path).self : note_path \in {A, B}}
    \cup {handle_note_selected_in_visualizer(self, note_path).self :
            note_path \in {A, B}}
    \cup {handle_note_explorer_message(self, loaded).self :
            loaded \in {<<>>, <<NoteMetadata(B)>>}}
    \cup {handle_note_deleted(self, MessageNoteDeleted("ok", A)).self}

\* C40: in every state of the editor at most one of show_visualizer,
\* show_new_note_input, show_move_note_input and show_about_info is set,
\* and so it is after any message that writes one of them, whatever is
\* shown when the message comes
C40_AtMostOneShown ==
    /\ Cardinality(Shown(editor)) <= 1
    /\ \A after \in AfterFlagMessage(Self) :
        Cardinality(Shown(after.state)) <= 1

\* the about page is shown and a message opens the dialog of a new note
C40_Witness ==
    /\ editor.show_about_info
    /\ handle_new_note(Self).self.state.show_new_note_input
    /\ Shown(handle_new_note(Self).self.state) = {"show_new_note_input"}

\* no label twice in a list of labels
DistinctLabels(labels) ==
    \A j, k \in 1..Len(labels) : j # k => labels[j] # labels[k]

NoDuplicateLabels(ns) == \A i \in 1..Len(ns) : DistinctLabels(ns[i].labels)

\* the editor when text is typed into the field of the new label
WithLabelText(self, text) == [self EXCEPT !.state.new_label_text = text]

\* C37: no record holds a label twice, in the note list, in the index on
\* disk, in a list a task or a message carries or in the labels shown for
\* the selected note; AddLabel of a label the record of the selected note
\* has, or of a blank one, leaves the editor as it is and returns no
\* command
C37_NoDuplicateLabels ==
    /\ NoDuplicateLabels(notes)
    /\ NoDuplicateLabels(load_metadata(metadata))
    /\ DistinctLabels(editor.selected_note_labels)
    /\ \A m \in BagToSet(pending) : NoDuplicateLabels(m.notes)
    /\ \A text \in LabelInputs \cup {<<" ">>, <<>>} :
        LET typed == WithLabelText(Self, text)
            had == LabelsOf(notes, editor.selected_note_path.value)
        IN  (\/ Trim(text) = <<>>
             \/ /\ editor.selected_note_path.tag = "Some"
                /\ \E i \in 1..Len(had) : had[i] = Trim(text))
                => handle_add_label(typed) = Updated(typed, <<>>)

\* the selected note has label x, and AddLabel of x comes again
C37_Witness ==
    /\ editor.selected_note_path = Some(A)
    /\ NothingShown(editor)
    /\ LabelsOf(notes, A) = <<<<"x">>>>
    /\ handle_add_label(WithLabelText(Self, <<"x">>))
        = Updated(WithLabelText(Self, <<"x">>), <<>>)

\* command is one of the commands
Issues(commands, command) ==
    \E i \in 1..Len(commands) : commands[i] = command

\* how many times the record is in the list
CountIn(ns, record) == Cardinality({i \in 1..Len(ns) : ns[i] = record})

\* the two lists hold the same records, each as many times
SameRecords(ns, others) ==
    /\ Len(ns) = Len(others)
    /\ \A i \in 1..Len(ns) : CountIn(ns, ns[i]) = CountIn(others, ns[i])

\* what handling the Err of a create, a delete or a move returns
ErrorCommands(self, message) ==
    IF message.kind = "NoteDeleted"
    THEN handle_note_deleted(self, message).commands
    ELSE IF message.kind = "NoteMoved"
    THEN handle_note_moved(self, message).commands
    ELSE handle_note_created(self, message).commands

\* C36: handling the Err of a delete or of a move starts a reload of the
\* index; handling the Err of a create leaves the alert, and closing the
\* alert starts the reload; a reload that runs delivers the records
\* metadata.json holds then, and handling a reload's result leaves exactly
\* the records it carries in the note list
C36_ErrorReloadsIndex ==
    [][/\ \A message \in BagToSet(pending) :
            (message.kind \in {"NoteDeleted", "NoteMoved", "NoteCreated"}
                /\ message.content # "ok") =>
                \/ Issues(ErrorCommands(Self, message), LoadNotes)
                \/ /\ Issues(ErrorCommands(Self, message), MessageLoadNotes)
                   /\ Issues(handle_load_notes(Self).commands, LoadNotes)
       /\ CopiesIn(LoadNotes, pending') < CopiesIn(LoadNotes, pending) =>
            CopiesIn(MessageNotesLoaded(load_metadata(metadata)), pending')
                > CopiesIn(MessageNotesLoaded(load_metadata(metadata)),
                           pending)
       /\ \A message \in BagToSet(pending) :
            (message.kind = "NotesLoaded"
                /\ CopiesIn(message, pending') < CopiesIn(message, pending))
                => SameRecords(notes', message.notes)]_vars

\* a create has failed, and its Err is about to be handled
C36_Witness ==
    \E message \in BagToSet(pending) :
        /\ message.kind = "NoteCreated"
        /\ message.content = "conflict"
        /\ ErrorCommands(Self, message) = <<MessageLoadNotes>>

============================================================================
